---------------------------- MODULE Spec2Model ----------------------------
(***************************************************************************)
(* Weekly scheduler (bc2411): the 15-minute slot grid, the eligibility     *)
(* filter, the MILP constraints handed to the solver and the construction  *)
(* of the result, for the four co-resident variants                        *)
(*   "base"       allocation_logic.py                 (fixed 08-22 grid)   *)
(*   "noY"        allocation_logic_new.py             (fixed 08-22 grid)   *)
(*   "penalty"    allocation_logic_deadline_penalty.py (dynamic window)    *)
(*   "contextual" allocation_logic_new_new.py          (dynamic window)    *)
(*                                                                         *)
(* A naive local datetime is modelled as the integer number of minutes     *)
(* since local midnight of day 0 (the value of get_day0_ref_midnight()).   *)
(* The solver is a black box: it may return any assignment that satisfies  *)
(* the constraints the code added to the model.                            *)
(***************************************************************************)
EXTENDS Integers, Sequences, FiniteSets, TLC

VARIABLES
    variant,                  \* which solve_schedule_gurobi is called
    start_hour, end_hour,     \* the daily window of the call
    task_inputs,              \* the caller's task records (duration in minutes)
    tasks,                    \* the task dicts handed to the solver
    commitments,              \* keys of the commitments dict
    daily_limit_slots,        \* {} for None, {K} for the integer K
    hard_task_threshold,
    pc,                       \* position of the request
    schedulable_tasks,        \* the copies of the tasks admitted by the filter
    unschedulable_tasks_info, \* the filter reports
    solver,                   \* what m.optimize() left: Status, SolCount, X, L,
                              \* and which X values cannot be read back
    result,                   \* the dict returned by solve_schedule_gurobi
    conv,                     \* a slot <-> datetime conversion in progress
    wall_clock,               \* datetime.now(), in minutes
    day0_naive_local,         \* the module global of the anchor: {} for None
    callers                   \* the threads calling the anchor getter

vars == <<variant, start_hour, end_hour, task_inputs, tasks, commitments,
          daily_limit_slots, hard_task_threshold, pc, schedulable_tasks,
          unschedulable_tasks_info, solver, result, conv, wall_clock,
          day0_naive_local, callers>>

day0Vars == <<wall_clock, day0_naive_local, callers>>

solveVars == <<task_inputs, tasks, commitments, daily_limit_slots,
               hard_task_threshold, schedulable_tasks,
               unschedulable_tasks_info, solver, result>>

Max(a, b) == IF a >= b THEN a ELSE b
Min(a, b) == IF a <= b THEN a ELSE b

(***************************************************************************)
(* Time grid                                                               *)
(***************************************************************************)
TOTAL_DAYS == 7
SLOTS_PER_DAY == 56
TOTAL_SLOTS == SLOTS_PER_DAY * TOTAL_DAYS
GRID_START_HOUR == 8
GRID_END_HOUR == 22
MinutesPerDay == 24 * 60

FixedGrid(v) == v \in {"base", "noY"}

\* The value standing for a raised ValueError of the conversions.
ValueError == 0 - 1000000

\* get_day0(): today at 08:00 (fixed grid), minutes since day-0 midnight.
get_day0 == GRID_START_HOUR * 60

\* get_day0_ref_midnight(): local midnight of day 0.
get_day0_ref_midnight == 0

ValidHours(sh, eh) == 0 <= sh /\ sh < 24 /\ 0 < eh /\ eh <= 24 /\ sh < eh

\* calculate_dynamic_config: <<slots_per_day, total_slots>> of a valid window.
calculate_dynamic_config(sh, eh) == <<(eh - sh) * 4, (eh - sh) * 4 * TOTAL_DAYS>>

SlotsPerDay(v, sh, eh) ==
    IF FixedGrid(v) THEN SLOTS_PER_DAY ELSE calculate_dynamic_config(sh, eh)[1]

TotalSlots(v, sh, eh) ==
    IF FixedGrid(v) THEN TOTAL_SLOTS ELSE calculate_dynamic_config(sh, eh)[2]

\* slot_to_datetime of allocation_logic.py / allocation_logic_new.py.
slot_to_datetime_fixed(slot) ==
    IF ~(0 <= slot /\ slot < TOTAL_SLOTS)
    THEN IF slot = TOTAL_SLOTS
         THEN get_day0 + TOTAL_DAYS * MinutesPerDay
         ELSE ValueError
    ELSE LET day_index == slot \div SLOTS_PER_DAY
             slot_in_day == slot % SLOTS_PER_DAY
         IN get_day0 + day_index * MinutesPerDay + slot_in_day * 15

\* slot_to_datetime of the dynamic-window variants.
slot_to_datetime_dynamic(slot, sh, slots_per_day, total_slots) ==
    LET day0_actual_start == get_day0_ref_midnight + sh * 60
    IN IF ~(0 <= slot /\ slot <= total_slots)
       THEN ValueError
       ELSE IF slot = total_slots
       THEN day0_actual_start + TOTAL_DAYS * MinutesPerDay
       ELSE LET day_index == slot \div slots_per_day
                slot_in_day == slot % slots_per_day
            IN day0_actual_start + day_index * MinutesPerDay + slot_in_day * 15

slot_to_datetime(v, slot, sh, eh) ==
    IF FixedGrid(v)
    THEN slot_to_datetime_fixed(slot)
    ELSE slot_to_datetime_dynamic(slot, sh, SlotsPerDay(v, sh, eh),
                                  TotalSlots(v, sh, eh))

\* hour * 60 + minute of a datetime.
MinutesIntoDay(dt) == dt % MinutesPerDay

\* Step 3 without the offset of the window start.
SlotInDayNoOffset(minutes_into_day, sh, eh, slots_per_day) ==
    LET raw == IF minutes_into_day < sh * 60 THEN 0
               ELSE IF minutes_into_day >= eh * 60 THEN slots_per_day - 1
               ELSE minutes_into_day \div 15
    IN Max(0, Min(raw, slots_per_day - 1))

\* Step 3 of datetime_to_slot: the slot within the day's window.
SlotInDay(minutes_into_day, sh, eh, slots_per_day) ==
    LET raw == IF minutes_into_day < sh * 60 THEN 0
               ELSE IF minutes_into_day >= eh * 60 THEN slots_per_day - 1
               ELSE (minutes_into_day - sh * 60) \div 15
    IN Max(0, Min(raw, slots_per_day - 1))

\* Step 1 of datetime_to_slot: clamp to the 7-day horizon.
ClampToHorizon(dt, horizon_start, last_slot_start_dt) ==
    IF dt < horizon_start THEN horizon_start
    ELSE IF dt >= horizon_start + TOTAL_DAYS * MinutesPerDay
    THEN last_slot_start_dt
    ELSE dt

\* datetime_to_slot of allocation_logic.py / allocation_logic_new.py: the day
\* index counts whole days since day0 (08:00).
datetime_to_slot_fixed(dt) ==
    LET dt_clamped == ClampToHorizon(dt, get_day0,
                                     slot_to_datetime_fixed(TOTAL_SLOTS - 1))
        day_index == Max(0, Min((dt_clamped - get_day0) \div MinutesPerDay,
                                TOTAL_DAYS - 1))
        slot_in_day == SlotInDay(MinutesIntoDay(dt_clamped), GRID_START_HOUR,
                                 GRID_END_HOUR, SLOTS_PER_DAY)
        global_slot == day_index * SLOTS_PER_DAY + slot_in_day
    IN Max(0, Min(global_slot, TOTAL_SLOTS - 1))

\* datetime_to_slot of allocation_logic_deadline_penalty.py: the day index
\* counts whole days since day-0 midnight.
datetime_to_slot_penalty(dt, sh, eh, slots_per_day, total_slots) ==
    LET day0_actual_start == get_day0_ref_midnight + sh * 60
        dt_clamped == ClampToHorizon(dt, day0_actual_start,
              slot_to_datetime_dynamic(total_slots - 1, sh, slots_per_day,
                                       total_slots))
        day_index == Max(0, Min((dt_clamped - get_day0_ref_midnight)
                                   \div MinutesPerDay, TOTAL_DAYS - 1))
        slot_in_day == SlotInDay(MinutesIntoDay(dt_clamped), sh, eh,
                                 slots_per_day)
        global_slot == day_index * slots_per_day + slot_in_day
    IN IF total_slots - 1 < 0 THEN 0
       ELSE Max(0, Min(global_slot, total_slots - 1))

\* datetime_to_slot of allocation_logic_new_new.py: the day index counts
\* whole days since the start of the window on day 0.
datetime_to_slot_contextual(dt, sh, eh, slots_per_day, total_slots) ==
    LET day0_actual_start == get_day0_ref_midnight + sh * 60
        dt_clamped == ClampToHorizon(dt, day0_actual_start,
              slot_to_datetime_dynamic(total_slots - 1, sh, slots_per_day,
                                       total_slots))
        since_start == Max(0, dt_clamped - day0_actual_start)
        day_index == Max(0, Min(since_start \div MinutesPerDay,
                                TOTAL_DAYS - 1))
        slot_in_day == SlotInDay(MinutesIntoDay(dt_clamped), sh, eh,
                                 slots_per_day)
        global_slot == day_index * slots_per_day + slot_in_day
    IN IF total_slots <= 0 THEN 0
       ELSE Max(0, Min(global_slot, total_slots - 1))

datetime_to_slot(v, dt, sh, eh) ==
    IF FixedGrid(v) THEN datetime_to_slot_fixed(dt)
    ELSE IF v = "penalty"
    THEN datetime_to_slot_penalty(dt, sh, eh, SlotsPerDay(v, sh, eh),
                                  TotalSlots(v, sh, eh))
    ELSE datetime_to_slot_contextual(dt, sh, eh, SlotsPerDay(v, sh, eh),
                                     TotalSlots(v, sh, eh))

(***************************************************************************)
(* Preference partition                                                    *)
(***************************************************************************)
Slots(total_slots) == 0 .. (total_slots - 1)

Days == 0 .. (TOTAL_DAYS - 1)

\* PREFERENCE_MAP of the fixed-grid modules: offsets within each 56-slot day.
PREFERENCE_MAP(pref) ==
    IF pref = "morning"
    THEN {s \in Slots(TOTAL_SLOTS) : s % SLOTS_PER_DAY < 16}
    ELSE IF pref = "afternoon"
    THEN {s \in Slots(TOTAL_SLOTS) :
            16 <= s % SLOTS_PER_DAY /\ s % SLOTS_PER_DAY < 32}
    ELSE IF pref = "evening"
    THEN {s \in Slots(TOTAL_SLOTS) : 32 <= s % SLOTS_PER_DAY}
    ELSE Slots(TOTAL_SLOTS)

\* slot_start_dt.hour of a slot of the dynamic grid.
HourOfSlot(s, sh, slots_per_day, total_slots) ==
    MinutesIntoDay(slot_to_datetime_dynamic(s, sh, slots_per_day, total_slots))
        \div 60

\* preference_map by offset within the day, as on the fixed 08-22 grid.
preference_map_offsets(pref, sh, slots_per_day, total_slots) ==
    IF pref = "morning"
    THEN {s \in Slots(total_slots) : s % slots_per_day < 16}
    ELSE IF pref = "afternoon"
    THEN {s \in Slots(total_slots) :
            16 <= s % slots_per_day /\ s % slots_per_day < 32}
    ELSE IF pref = "evening"
    THEN {s \in Slots(total_slots) : 32 <= s % slots_per_day}
    ELSE Slots(total_slots)

\* preference_map of the dynamic-window modules: by wall-clock hour.
preference_map(pref, sh, slots_per_day, total_slots) ==
    LET hour(s) == HourOfSlot(s, sh, slots_per_day, total_slots)
    IN IF pref = "morning"
       THEN {s \in Slots(total_slots) : 8 <= hour(s) /\ hour(s) < 12}
       ELSE IF pref = "afternoon"
       THEN {s \in Slots(total_slots) : 12 <= hour(s) /\ hour(s) < 16}
       ELSE IF pref = "evening"
       THEN {s \in Slots(total_slots) : 16 <= hour(s) /\ hour(s) < 22}
       ELSE Slots(total_slots)

\* allowed_slots of a task: an unknown preference degrades to "any".
AllowedSlots(v, pref, sh, eh) ==
    IF FixedGrid(v) THEN PREFERENCE_MAP(pref)
    ELSE preference_map(pref, sh, SlotsPerDay(v, sh, eh), TotalSlots(v, sh, eh))

(***************************************************************************)
(* Eligibility filter                                                      *)
(***************************************************************************)
\* ceil(a / b) for b > 0.
CeilDiv(a, b) == (a + b - 1) \div b

\* math.ceil(stress_factor * math.log(10/3)) for a positive integer
\* stress_factor; ln(10/3) = 1.2039728043..., and no product with an integer
\* below 179 is an integer or crosses one in the eighth decimal.
required_duration_min_int(stress_factor) ==
    (stress_factor * 12039728) \div 10000000 + 1

\* The Pi test comparing the slot count, not the minutes, with the minimum.
PiConditionMetSlots(task) ==
    task.duration_slots
        >= required_duration_min_int(task.difficulty * task.priority)

\* duration_min >= required_duration_min_float, for the integer duration_min.
PiConditionMet(task) ==
    task.duration_slots * 15
        >= required_duration_min_int(task.difficulty * task.priority)

NonPositive(task) == task.difficulty <= 0 \/ task.priority <= 0

\* The extra deadline test of allocation_logic_new_new.py.
DeadlineTooEarly(v, task) ==
    v = "contextual" /\ task.deadline_slot < task.duration_slots - 1

Admitted(v, task) ==
    ~NonPositive(task) /\ PiConditionMet(task) /\ ~DeadlineTooEarly(v, task)

\* The dict appended to schedulable_tasks: the penalty variant clamps the
\* deadline and the duration of its copy to the grid.
SchedulableCopy(v, task, total_slots) ==
    IF v = "penalty"
    THEN [task EXCEPT !.deadline_slot = Min(task.deadline_slot, total_slots - 1),
                      !.duration_slots = Min(task.duration_slots, total_slots)]
    ELSE task

\* The dict appended to unschedulable_tasks_info; required_duration_min is
\* {} for None.
FilterReport(v, task) ==
    [id |-> task.id, name |-> task.name,
     reason |-> IF NonPositive(task) THEN "Non-positive difficulty or priority"
                ELSE IF PiConditionMet(task) THEN "Deadline too early"
                ELSE "Pi condition not met",
     required_duration_min |->
         IF NonPositive(task) THEN {}
         ELSE {required_duration_min_int(task.difficulty * task.priority)},
     current_duration_min |-> task.duration_slots * 15]

RECURSIVE FilterTasks(_, _, _)
\* The filter loop: <<schedulable_tasks, unschedulable_tasks_info>>.
FilterTasks(v, ts, total_slots) ==
    IF ts = <<>> THEN << <<>>, <<>> >>
    ELSE LET rest == FilterTasks(v, SubSeq(ts, 1, Len(ts) - 1), total_slots)
             task == ts[Len(ts)]
         IN IF Admitted(v, task)
            THEN <<Append(rest[1], SchedulableCopy(v, task, total_slots)), rest[2]>>
            ELSE <<rest[1], Append(rest[2], FilterReport(v, task))>>

(***************************************************************************)
(* Model builder: the constraints added to the MILP.  TaskMustStart makes  *)
(* every row of X hold exactly one 1, so a solution is written as the      *)
(* sequence x with x[i] the start slot of schedulable task i               *)
(* (X[i, s] = 1 iff x[i] = s).                                             *)
(***************************************************************************)
\* Deadline testing the start slot instead of the last slot.
DeadlineForbidsStart(task, s) == s > task.deadline_slot

\* Deadline_{i}_s: X[i, s] == 0 when the last slot would pass the deadline.
DeadlineForbids(task, s) == s + task.duration_slots - 1 > task.deadline_slot

\* HorizonEnd_{i}_s: X[i, s] == 0 when the task would pass the horizon.
HorizonForbids(task, s, total_slots) == s > total_slots - task.duration_slots

\* PrefWin_{i}_s: X[i, s] == 0 outside the allowed slots of the preference.
PreferenceForbids(v, task, s, sh, eh) ==
    s \notin AllowedSlots(v, task.preference, sh, eh)

\* CommitOverlap testing the start slot only.
CommitmentForbidsStartOnly(task, s, committed_slots, total_slots) ==
    s \in committed_slots

\* CommitOverlap_{i}_s: X[i, s] == 0 when an occupied slot is committed.
CommitmentForbids(task, s, committed_slots, total_slots) ==
    LET task_occupies == s .. (Min(s + task.duration_slots, total_slots) - 1)
    IN task_occupies \cap committed_slots # {}

\* The start slots none of the X[i, s] == 0 constraints excludes.
OpenStarts(v, task, sh, eh, committed_slots) ==
    LET total_slots == TotalSlots(v, sh, eh)
    IN {s \in Slots(total_slots) :
          /\ ~DeadlineForbids(task, s)
          /\ ~HorizonForbids(task, s, total_slots)
          /\ ~PreferenceForbids(v, task, s, sh, eh)
          /\ ~CommitmentForbids(task, s, committed_slots, total_slots)}

\* Whether X[i, x[i]] is a term of the occupation expression of slot t.
Occupies(task, start, t, total_slots) ==
    /\ Max(0, t - task.duration_slots + 1) <= start
    /\ start <= t
    /\ start + task.duration_slots <= total_slots

\* The value of the occupation expression of slot t under x.
Occupation(T, x, t, total_slots) ==
    Cardinality({i \in 1 .. Len(T) : Occupies(T[i], x[i], t, total_slots)})

\* NoOverlap written over the start slots only: the duration is forgotten.
NoOverlapStartsOnly(T, x, total_slots) ==
    \A t \in Slots(total_slots) :
        Cardinality({i \in 1 .. Len(T) : x[i] = t}) <= 1

\* NoOverlap_s{t} for every slot t.
NoOverlap(T, x, total_slots) ==
    \A t \in Slots(total_slots) : Occupation(T, x, t, total_slots) <= 1

\* hard_tasks_indices with a strict comparison.
hard_tasks_indices_strict(T, threshold) ==
    {i \in 1 .. Len(T) : T[i].difficulty > threshold}

hard_tasks_indices(T, threshold) ==
    {i \in 1 .. Len(T) : T[i].difficulty >= threshold}

\* MaxOneHardTask_Day_{d} for every day d (omitted without hard tasks).
MaxOneHardTask(T, x, threshold, slots_per_day) ==
    LET hard == hard_tasks_indices(T, threshold)
    IN hard # {} =>
         \A d \in Days :
            Cardinality({i \in hard :
                /\ d * slots_per_day <= x[i]
                /\ x[i] < d * slots_per_day + slots_per_day}) <= 1

\* Y[s] set only on the slot a task starts in.
DailyYSumOfStarts(T, x, d, slots_per_day, total_slots) ==
    Cardinality({i \in 1 .. Len(T) :
                    /\ d * slots_per_day <= x[i]
                    /\ x[i] < d * slots_per_day + slots_per_day})

\* sum(Y[s] for s in day d) of the base variant, Y[s] == occupation of s.
DailyYSum(T, x, d, slots_per_day, total_slots) ==
    Cardinality({p \in (1 .. Len(T)) \X
                       (d * slots_per_day .. (d * slots_per_day + slots_per_day - 1)) :
                   Occupies(T[p[1]], x[p[1]], p[2], total_slots)})

\* slots_in_day counting a task only in the day it starts in.
slots_in_start_day(task, start, d, slots_per_day) ==
    LET day_start_slot == d * slots_per_day
        day_end_slot == day_start_slot + slots_per_day
    IN IF day_start_slot <= start /\ start < day_end_slot
       THEN Min(task.duration_slots, day_end_slot - start)
       ELSE 0

\* slots_in_day of the other variants: the part of [start, start + dur) in day d.
slots_in_day(task, start, d, slots_per_day) ==
    LET day_start_slot == d * slots_per_day
        day_end_slot == day_start_slot + slots_per_day
        intersect_start == Max(start, day_start_slot)
        intersect_end == Min(start + task.duration_slots, day_end_slot)
    IN Max(0, intersect_end - intersect_start)

RECURSIVE DailySlotsOccupied(_, _, _, _, _, _)
\* daily_slots_occupied_expr of day d under x, summed over tasks 1..n.
DailySlotsOccupied(T, x, n, d, slots_per_day, total_slots) ==
    IF n = 0 THEN 0
    ELSE DailySlotsOccupied(T, x, n - 1, d, slots_per_day, total_slots)
         + (IF x[n] + T[n].duration_slots <= total_slots
            THEN slots_in_day(T[n], x[n], d, slots_per_day)
            ELSE 0)

\* What the daily-limit constraint of day d bounds, by variant.
DailyLoad(v, T, x, d, slots_per_day, total_slots) ==
    IF v = "base"
    THEN DailyYSum(T, x, d, slots_per_day, total_slots)
    ELSE DailySlotsOccupied(T, x, Len(T), d, slots_per_day, total_slots)

\* DailyLimit_Day_{d} for every day d (only with a limit K >= 0).
DailyLimit(v, T, x, limit, slots_per_day, total_slots) ==
    \A K \in limit :
        K >= 0 =>
          \A d \in Days :
             DailyLoad(v, T, x, d, slots_per_day, total_slots) <= K

RECURSIVE StartChoices(_, _, _, _, _, _)
\* The assignments of tasks 1..n that satisfy every X[i, s] == 0 constraint.
StartChoices(v, T, n, sh, eh, committed_slots) ==
    IF n = 0 THEN {<<>>}
    ELSE {Append(x, s) :
            x \in StartChoices(v, T, n - 1, sh, eh, committed_slots),
            s \in OpenStarts(v, T[n], sh, eh, committed_slots)}

\* The solutions of the model: every constraint holds.
FeasibleSolutions(v, T, sh, eh, committed_slots, limit, threshold) ==
    LET slots_per_day == SlotsPerDay(v, sh, eh)
        total_slots == TotalSlots(v, sh, eh)
    IN {x \in StartChoices(v, T, Len(T), sh, eh, committed_slots) :
          /\ MaxOneHardTask(T, x, threshold, slots_per_day)
          /\ NoOverlap(T, x, total_slots)
          /\ DailyLimit(v, T, x, limit, slots_per_day, total_slots)}

(***************************************************************************)
(* Objective and leisure.  The weights are the defaults of the signature;  *)
(* alpha, beta and the contextual gamma are kept in hundredths.            *)
(***************************************************************************)
alpha == 100
beta == 10
gamma == 5
gamma_penalty == 1

\* generate_default_leisure_weights, in tenths: 1.5 from 18:00 on.
W(v, s, sh, eh) ==
    IF HourOfSlot(s, sh, SlotsPerDay(v, sh, eh), TotalSlots(v, sh, eh)) >= 18
    THEN 15 ELSE 10

\* generate_default_stress_multipliers, in tenths: 1.2 from 09:00 to 17:00.
M_stress(v, s, sh, eh) ==
    LET hour == HourOfSlot(s, sh, SlotsPerDay(v, sh, eh), TotalSlots(v, sh, eh))
    IN IF 9 <= hour /\ hour < 17 THEN 12 ELSE 10

RECURSIVE Sum(_, _)
\* Sum of f[i] over the finite set S.
Sum(f, S) ==
    IF S = {} THEN 0
    ELSE LET i == CHOOSE j \in S : TRUE IN f[i] + Sum(f, S \ {i})

\* Leisure bounded by the commitments only: occupied slots stay leisure.
FreeSlotsIgnoringTasks(T, x, committed_slots, total_slots) ==
    {s \in Slots(total_slots) : s \notin committed_slots}

\* The slots the solution x can report as leisure: not committed, and with
\* an occupation expression of 0.
FreeSlots(T, x, committed_slots, total_slots) ==
    {s \in Slots(total_slots) :
        s \notin committed_slots /\ Occupation(T, x, s, total_slots) = 0}

\* An incumbent that is not optimal may leave the leisure variables of free
\* slots below 15: every free slot counted, all but the first, or none.
LeisureChoices(free) ==
    {free, {}}
      \cup (IF free = {} THEN {}
            ELSE {free \ {CHOOSE s \in free : \A t \in free : s <= t}})

\* Z.sum(): the pairs of adjacent slots that are both leisure.
contiguous_leisure_pairs(L, total_slots) ==
    Cardinality({s \in 0 .. (total_slots - 2) : s \in L /\ (s + 1) \in L})

\* latest_possible_start of calculate_deadline_penalty_factor.
latest_possible_start(task) ==
    Max(0, task.deadline_slot - task.duration_slots + 1)

\* The factor measured from the latest start: early starts are penalised.
penalty_factor_of_earliness(start_slot, task, unit) ==
    IF latest_possible_start(task) = 0 THEN 0
    ELSE (unit \div latest_possible_start(task))
            * (latest_possible_start(task)
               - Max(0, Min(latest_possible_start(task), start_slot)))

\* calculate_deadline_penalty_factor(start_slot, task) times `unit`, where
\* latest_possible_start(task) divides `unit`.
calculate_deadline_penalty_factor(start_slot, task, unit) ==
    IF latest_possible_start(task) = 0 THEN 0
    ELSE (unit \div latest_possible_start(task))
            * Max(0, Min(latest_possible_start(task), start_slot))

RECURSIVE PenaltyUnit(_, _)
\* A common multiple of the latest possible starts of tasks 1..n.
PenaltyUnit(T, n) ==
    IF n = 0 THEN 1
    ELSE Max(1, latest_possible_start(T[n])) * PenaltyUnit(T, n - 1)

\* alpha * sum of W_s * L_s (contextual: thousandths) or alpha * sum of L_s
\* (hundredths).
obj_leisure(v, L, sh, eh) ==
    IF v = "contextual"
    THEN alpha * 15
           * (15 * Cardinality({s \in L : W(v, s, sh, eh) = 15})
              + 10 * Cardinality({s \in L : W(v, s, sh, eh) = 10}))
    ELSE alpha * 15 * Cardinality(L)

\* The stress of a task growing with its start slot in every variant.
stress_terms_by_start(v, T, x, sh, eh) ==
    Sum([i \in 1 .. Len(T) |-> T[i].priority * T[i].difficulty * (1 + x[i])],
        1 .. Len(T))

\* sum over the tasks of the stress term of their start slot, before beta:
\* p*d (base, noY), p*d*(1 + gamma*factor) times PenaltyUnit (penalty),
\* M_s*p*d in tenths (contextual).
stress_terms(v, T, x, sh, eh) ==
    Sum([i \in 1 .. Len(T) |->
           T[i].priority * T[i].difficulty *
             (IF v = "contextual" THEN M_stress(v, x[i], sh, eh)
              ELSE IF v = "penalty"
              THEN PenaltyUnit(T, Len(T))
                   + gamma_penalty * calculate_deadline_penalty_factor(
                                        x[i], T[i], PenaltyUnit(T, Len(T)))
              ELSE 1)],
        1 .. Len(T))

\* The objective value of the solution (x, L): thousandths in the
\* contextual variant, hundredths times PenaltyUnit in the penalty variant,
\* hundredths in the fixed-grid variants.
Objective(v, T, x, L, sh, eh) ==
    IF v = "contextual"
    THEN obj_leisure(v, L, sh, eh) - beta * stress_terms(v, T, x, sh, eh)
         + gamma * 10 * contiguous_leisure_pairs(L, TotalSlots(v, sh, eh))
    ELSE IF v = "penalty"
    THEN obj_leisure(v, L, sh, eh) * PenaltyUnit(T, Len(T))
         - beta * stress_terms(v, T, x, sh, eh)
    ELSE obj_leisure(v, L, sh, eh) - beta * stress_terms(v, T, x, sh, eh)

\* The solutions with their leisure variables: pairs <<x, L>>.
Incumbents(v, T, sh, eh, committed_slots, limit, threshold) ==
    UNION {{<<x, L>> :
              L \in LeisureChoices(FreeSlots(T, x, committed_slots,
                                             TotalSlots(v, sh, eh)))} :
           x \in FeasibleSolutions(v, T, sh, eh, committed_slots, limit,
                                   threshold)}

\* Every incumbent taken for optimal: the objective is not consulted.
OptimalSolutionsUnranked(v, T, sh, eh, committed_slots, limit, threshold) ==
    Incumbents(v, T, sh, eh, committed_slots, limit, threshold)

\* The incumbents no other incumbent beats: what status OPTIMAL returns.
OptimalSolutions(v, T, sh, eh, committed_slots, limit, threshold) ==
    LET all == Incumbents(v, T, sh, eh, committed_slots, limit, threshold)
        values == {Objective(v, T, c[1], c[2], sh, eh) : c \in all}
        best == CHOOSE m \in values : \A n \in values : n <= m
    IN {c \in all : Objective(v, T, c[1], c[2], sh, eh) = best}

(***************************************************************************)
(* Solver driver: reading the solution back                                *)
(***************************************************************************)
\* endTime of a record: the fixed-grid and penalty variants clamp it to the
\* end hour of the start day, the contextual variant reports the natural end.
OutputEndTime(v, start_dt, dur_slots, eh) ==
    LET end_dt == start_dt + dur_slots * 15
        day_end_limit == (start_dt \div MinutesPerDay) * MinutesPerDay
                         + (IF FixedGrid(v) THEN GRID_END_HOUR ELSE eh) * 60
    IN IF v = "contextual" THEN end_dt ELSE Min(end_dt, day_end_limit)

\* The record with the exclusive end written as end_slot.
ScheduleRecordExclusiveEnd(v, task, s, sh, eh) ==
    [id |-> task.id, name |-> task.name, priority |-> task.priority,
     difficulty |-> task.difficulty,
     start_slot |-> s,
     end_slot |-> s + task.duration_slots,
     startTime |-> slot_to_datetime(v, s, sh, eh),
     endTime |-> OutputEndTime(v, slot_to_datetime(v, s, sh, eh),
                               task.duration_slots, eh),
     duration_min |-> task.duration_slots * 15,
     preference |-> task.preference]

\* The record built for schedulable task `task` found starting at slot s.
ScheduleRecord(v, task, s, sh, eh) ==
    LET start_dt == slot_to_datetime(v, s, sh, eh)
    IN [id |-> task.id, name |-> task.name, priority |-> task.priority,
        difficulty |-> task.difficulty,
        start_slot |-> s,
        end_slot |-> s + task.duration_slots - 1,
        startTime |-> start_dt,
        endTime |-> OutputEndTime(v, start_dt, task.duration_slots, eh),
        duration_min |-> task.duration_slots * 15,
        preference |-> task.preference]

\* The skip test off by one: a record ending on the last slot is dropped.
RecordBuiltStrict(task, s, total_slots) ==
    s + task.duration_slots < total_slots

\* A start is skipped when its end slot is not a slot of the grid.
RecordBuilt(task, s, total_slots) == s + task.duration_slots - 1 < total_slots

RECURSIVE ScheduleRecords(_, _, _, _, _, _)
\* schedule_records after the loop over schedulable tasks 1..n: a task whose
\* X values raise when they are read (sol.Unread) gets no record.
ScheduleRecords(v, T, sol, n, sh, eh) ==
    IF n = 0 THEN <<>>
    ELSE LET before == ScheduleRecords(v, T, sol, n - 1, sh, eh)
         IN IF n \notin sol.Unread
               /\ RecordBuilt(T[n], sol.X[n], TotalSlots(v, sh, eh))
            THEN Append(before, ScheduleRecord(v, T[n], sol.X[n], sh, eh))
            ELSE before

RECURSIVE InsertByStart(_, _)
\* Insert record r after the records whose start_slot is not larger.
InsertByStart(sorted, r) ==
    IF sorted = <<>> THEN <<r>>
    ELSE IF sorted[Len(sorted)].start_slot <= r.start_slot
    THEN Append(sorted, r)
    ELSE Append(InsertByStart(SubSeq(sorted, 1, Len(sorted) - 1), r),
                sorted[Len(sorted)])

RECURSIVE SortByStartSlot(_)
\* schedule_records.sort(key=start_slot): a stable sort.
SortByStartSlot(records) ==
    IF records = <<>> THEN <<>>
    ELSE InsertByStart(SortByStartSlot(SubSeq(records, 1, Len(records) - 1)),
                       records[Len(records)])

\* The quotient rounded up to the next hundredth instead of to the nearest.
completion_rate_rounded_up(scheduled_task_count, original_task_count) ==
    IF original_task_count > 0
    THEN (100 * scheduled_task_count + original_task_count - 1)
             \div original_task_count
    ELSE 0

\* round(scheduled / original, 2), in hundredths; 0 for an empty input list.
completion_rate(scheduled_task_count, original_task_count) ==
    IF original_task_count > 0
    THEN (200 * scheduled_task_count + original_task_count)
             \div (2 * original_task_count)
    ELSE 0

\* status_map.get(status, ...)
status_map(status) ==
    IF status = "OPTIMAL" THEN "Optimal"
    ELSE IF status = "INFEASIBLE" THEN "Infeasible"
    ELSE IF status = "UNBOUNDED" THEN "Unbounded"
    ELSE IF status = "INF_OR_UNBD" THEN "Infeasible or Unbounded"
    ELSE IF status = "TIME_LIMIT" THEN "Time Limit Reached"
    ELSE IF status = "SUBOPTIMAL" THEN "Suboptimal"
    ELSE "Gurobi Status Code"

SolutionFound(sol) ==
    sol.Status \in {"OPTIMAL", "SUBOPTIMAL", "TIME_LIMIT"} /\ sol.SolCount > 0

\* The metric keys of a returned dict with their values: leisure in
\* minutes, scores in hundredths, pairs as a count.  A dict without metric
\* keys has NoMetrics.
NoMetrics == [k \in {} |-> 0]

ZeroMetrics ==
    [raw_total_leisure_minutes |-> 0, weighted_leisure_score |-> 0,
     weighted_stress_score |-> 0, contiguous_leisure_pairs |-> 0]

\* The stress the driver recomputes from the X values.  Values that stay
\* unreadable after the record loop (sol.Lost) are skipped by the hasattr
\* test of the penalty variant, and send the contextual variant to its
\* fallback 0.
stress_read_back(v, T, sol, sh, eh) ==
    IF sol.Unread = {} \/ ~sol.Lost
    THEN stress_terms(v, T, sol.X, sh, eh)
    ELSE IF v = "contextual" THEN 0
    ELSE Sum([i \in 1 .. Len(T) |->
                T[i].priority * T[i].difficulty *
                  (IF v = "penalty"
                   THEN PenaltyUnit(T, Len(T))
                        + gamma_penalty * calculate_deadline_penalty_factor(
                                             sol.X[i], T[i], PenaltyUnit(T, Len(T)))
                   ELSE 1)],
             (1 .. Len(T)) \ sol.Unread)

\* The metrics starting from the leisure of an empty grid instead of 0.
SolutionMetricsFromFullGrid(v, T, sol, sh, eh) ==
    LET found == SolutionFound(sol)
        L == IF found THEN sol.L ELSE Slots(TotalSlots(v, sh, eh))
        stress == IF found THEN stress_read_back(v, T, sol, sh, eh) ELSE 0
    IN IF v = "contextual"
       THEN [raw_total_leisure_minutes |-> 15 * Cardinality(L),
             weighted_leisure_score |-> obj_leisure(v, L, sh, eh) \div 10,
             weighted_stress_score |-> 10 * stress,
             contiguous_leisure_pairs |->
                 contiguous_leisure_pairs(L, TotalSlots(v, sh, eh))]
       ELSE [total_leisure |-> 15 * Cardinality(L),
             total_stress |->
                 IF v = "penalty"
                 THEN (beta * stress) \div PenaltyUnit(T, Len(T))
                 ELSE 100 * stress]

\* The metrics read from the solution (x, L) of a found solution, and the
\* initial values they keep otherwise.
SolutionMetrics(v, T, sol, sh, eh) ==
    LET found == SolutionFound(sol)
        L == IF found THEN sol.L ELSE {}
        stress == IF found THEN stress_read_back(v, T, sol, sh, eh) ELSE 0
    IN IF v = "contextual"
       THEN [raw_total_leisure_minutes |-> 15 * Cardinality(L),
             weighted_leisure_score |-> obj_leisure(v, L, sh, eh) \div 10,
             weighted_stress_score |-> 10 * stress,
             contiguous_leisure_pairs |->
                 contiguous_leisure_pairs(L, TotalSlots(v, sh, eh))]
       ELSE [total_leisure |-> 15 * Cardinality(L),
             total_stress |->
                 IF v = "penalty"
                 THEN (beta * stress) \div PenaltyUnit(T, Len(T))
                 ELSE 100 * stress]

\* No dict returned yet.  keys tells which of the keys status, schedule,
\* message, filtered_tasks_info and completion_rate a returned dict holds.
NoResult ==
    [status |-> "", schedule |-> <<>>, filtered_tasks_info |-> <<>>,
     completion_rate |-> {}, keys |-> {}, metrics |-> NoMetrics,
     message |-> <<>>]

\* The message of the n_tasks == 0 branch, as its sentences.
NoSchedulableTasksMessage(info) ==
    <<"No tasks provided or all tasks were filtered out.">>
      \o (IF info # <<>> THEN <<"Filtered tasks">> ELSE <<>>)

\* The n_tasks == 0 branch reporting the leisure of an empty grid.
NoSchedulableTasksResultAllFree(v, info, committed_slots, sh, eh) ==
    [status |-> "No Schedulable Tasks", schedule |-> <<>>,
     filtered_tasks_info |-> info,
     completion_rate |-> IF v = "contextual" THEN {0} ELSE {},
     keys |-> {"status", "schedule", "message", "filtered_tasks_info"}
              \cup (IF v = "contextual" THEN {"completion_rate"} ELSE {}),
     metrics |->
         IF v = "contextual"
         THEN [raw_total_leisure_minutes |-> TotalSlots(v, sh, eh) * 15,
               weighted_leisure_score |-> 0, weighted_stress_score |-> 0,
               contiguous_leisure_pairs |-> 0]
         ELSE [total_leisure |-> TotalSlots(v, sh, eh) * 15,
               total_stress |-> 0],
     message |-> NoSchedulableTasksMessage(info)]

\* The return of the n_tasks == 0 branch.
NoSchedulableTasksResult(v, info, committed_slots, sh, eh) ==
    LET total_slots == TotalSlots(v, sh, eh)
        initial_leisure == total_slots * 15 - Cardinality(committed_slots) * 15
        free == Slots(total_slots) \ committed_slots
    IN [status |-> "No Schedulable Tasks", schedule |-> <<>>,
        filtered_tasks_info |-> info,
        completion_rate |-> IF v = "contextual" THEN {0} ELSE {},
        keys |-> {"status", "schedule", "message", "filtered_tasks_info"}
                 \cup (IF v = "contextual" THEN {"completion_rate"} ELSE {}),
        metrics |->
            IF v = "contextual"
            THEN [raw_total_leisure_minutes |-> Max(0, initial_leisure),
                  weighted_leisure_score |-> obj_leisure(v, free, sh, eh) \div 10,
                  weighted_stress_score |-> 0,
                  contiguous_leisure_pairs |->
                      contiguous_leisure_pairs(free, total_slots)]
            ELSE [total_leisure |-> initial_leisure, total_stress |-> 0],
        message |-> NoSchedulableTasksMessage(info)]

\* The except branches returning an empty filter list.
ErrorResultWithoutReports(v, info, cause) ==
    [status |-> IF v # "contextual" THEN "Error"
                ELSE IF cause = "GurobiError" THEN "Gurobi Error"
                ELSE "Exception",
     schedule |-> <<>>,
     filtered_tasks_info |-> <<>>,
     completion_rate |-> IF v = "contextual" THEN {0} ELSE {},
     keys |-> {"status", "message", "filtered_tasks_info"}
              \cup (IF v = "contextual" THEN {"schedule", "completion_rate"}
                    ELSE {}),
     metrics |-> IF v = "contextual" THEN ZeroMetrics ELSE NoMetrics,
     message |-> IF cause = "GurobiError" THEN <<"Gurobi Error">>
                 ELSE <<"Unexpected error during optimization">>]

\* The return of the except branches.
ErrorResult(v, info, cause) ==
    [status |-> IF v # "contextual" THEN "Error"
                ELSE IF cause = "GurobiError" THEN "Gurobi Error"
                ELSE "Exception",
     schedule |-> <<>>,
     filtered_tasks_info |-> info,
     completion_rate |-> IF v = "contextual" THEN {0} ELSE {},
     keys |-> {"status", "message", "filtered_tasks_info"}
              \cup (IF v = "contextual" THEN {"schedule", "completion_rate"}
                    ELSE {}),
     metrics |-> IF v = "contextual" THEN ZeroMetrics ELSE NoMetrics,
     message |-> IF cause = "GurobiError" THEN <<"Gurobi Error">>
                 ELSE <<"Unexpected error during optimization">>]

\* datetime.replace(hour=end_hour) of the penalty variant raises ValueError
\* for end_hour = 24 as soon as one record is built.
EndHourReplaceRaises(v, T, sol, sh, eh) ==
    /\ v = "penalty" /\ eh = 24 /\ SolutionFound(sol)
    /\ \E i \in (1 .. Len(T)) \ sol.Unread :
          RecordBuilt(T[i], sol.X[i], TotalSlots(v, sh, eh))

\* The message after m.optimize(), as its sentences.  The mismatch warning
\* is appended to "Solver status" after the record loop; the assignment of
\* the success sentence that follows replaces the whole message.
SolvedMessage(T, info, sol, scheduled_task_count) ==
    LET filtered_tasks_msg ==
            IF info # <<>>
            THEN <<"tasks were filtered out before optimization">> ELSE <<>>
        after_loop ==
            IF scheduled_task_count # Len(T)
            THEN <<"Solver status", "Warning: Mismatch">>
            ELSE <<"Solver status">>
        \* message = "Successfully scheduled ..." + filtered_tasks_msg:
        \* an assignment, nothing of after_loop is kept
        after_metrics == <<"Successfully scheduled">> \o filtered_tasks_msg
    IN IF SolutionFound(sol)
       THEN after_metrics
       ELSE IF sol.Status = "TIME_LIMIT"
       THEN <<"Time limit reached before a feasible solution could be found.">>
               \o filtered_tasks_msg
       ELSE IF sol.Status \in {"OPTIMAL", "SUBOPTIMAL"}
       THEN <<"Solver finished but reported no feasible solution.">>
               \o filtered_tasks_msg
       ELSE IF sol.Status = "INFEASIBLE"
       THEN <<"Could not find a feasible schedule.">> \o filtered_tasks_msg
       ELSE <<"Solver finished with unhandled status">> \o filtered_tasks_msg

\* Reading X again after the record loop: the fixed-grid variants sum
\* X[i, s].X without a guard, so a value that stays unreadable raises.
RereadRaises(v, sol) ==
    FixedGrid(v) /\ SolutionFound(sol) /\ sol.Unread # {} /\ sol.Lost

\* The return after m.optimize().
SolvedResult(v, T, info, sol, original_task_count, sh, eh) ==
    LET final_schedule ==
            IF SolutionFound(sol)
            THEN SortByStartSlot(ScheduleRecords(v, T, sol, Len(T), sh, eh))
            ELSE <<>>
    IN IF EndHourReplaceRaises(v, T, sol, sh, eh) \/ RereadRaises(v, sol)
       THEN ErrorResult(v, info, "Exception")
       ELSE [status |-> status_map(sol.Status),
             schedule |-> final_schedule,
             filtered_tasks_info |-> info,
             completion_rate |->
                 {completion_rate(Len(final_schedule), original_task_count)},
             keys |-> {"status", "schedule", "message", "filtered_tasks_info",
                       "completion_rate"},
             metrics |-> SolutionMetrics(v, T, sol, sh, eh),
             message |-> SolvedMessage(T, info, sol, Len(final_schedule))]

\* The returns of the configuration checks (dynamic variants only).
ConfigErrorResult(v) ==
    [status |-> IF v = "penalty" THEN "Error" ELSE "Configuration Error",
     schedule |-> <<>>,
     filtered_tasks_info |-> <<>>,
     completion_rate |-> IF v = "contextual" THEN {0} ELSE {},
     keys |-> {"status", "message", "filtered_tasks_info"}
              \cup (IF v = "contextual" THEN {"schedule", "completion_rate"}
                    ELSE {}),
     metrics |-> IF v = "contextual" THEN ZeroMetrics ELSE NoMetrics,
     message |-> <<"Configuration Error">>]

(***************************************************************************)
(* Callers: app.py optimize_schedule and sensitivity_analysis.py           *)
(* prepare_data_for_solver turn minutes into slots and intervals into      *)
(* blocked slots before they call the solver.                              *)
(***************************************************************************)
\* duration_slots = math.ceil(duration_min / 15.0), at least 1.
duration_slots_of(duration_min) == Max(1, CeilDiv(duration_min, 15))

\* The blocked slots of the commitment interval [start_dt, end_dt).
CommitmentSlots(v, start_dt, end_dt, sh, eh) ==
    LET start_slot == datetime_to_slot(v, start_dt, sh, eh)
        end_slot_inclusive == datetime_to_slot(v, end_dt - 1, sh, eh)
    IN {slot \in start_slot .. end_slot_inclusive :
            0 <= slot /\ slot < TotalSlots(v, sh, eh)}

(***************************************************************************)
(* The day-0 anchor: a module global that the getter initialises on its    *)
(* first call, from request threads that run concurrently.                 *)
(***************************************************************************)
RequestThreads == {1, 2}
MaxCalls == 2

IdleCaller == [pc |-> "idle", start_of_today |-> {}, calls |-> 0, returned |-> {}]

\* The anchor as the requests of the other specifications find it.
Day0Initialised ==
    /\ wall_clock = get_day0
    /\ day0_naive_local =
          {IF FixedGrid(variant) THEN get_day0 ELSE get_day0_ref_midnight}
    /\ callers = [t \in RequestThreads |-> IdleCaller]

(***************************************************************************)
(* Inputs of the requests explored                                         *)
(***************************************************************************)
MaxTasks == 2

At(day, hour, minute) == day * MinutesPerDay + hour * 60 + minute

\* <<variant, <<start_hour, end_hour>>>>; the fixed-grid variants take no
\* window, <<13, 11>> is an invalid one.
Configs ==
    ({"base", "noY"} \X {<<GRID_START_HOUR, GRID_END_HOUR>>})
    \cup ({"penalty", "contextual"}
          \X {<<11, 13>>, <<15, 17>>, <<22, 24>>, <<13, 11>>})

\* The commitments every explored week starts with: they leave free the end
\* of each preference period of day 0, the first hour of day 1 and the last
\* hour of the week.
StandingIntervals(v, sh) ==
    IF FixedGrid(v)
    THEN {<<At(0, 8, 0), At(0, 11, 30)>>, <<At(0, 12, 0), At(0, 15, 30)>>,
          <<At(0, 16, 0), At(0, 21, 0)>>, <<At(1, 9, 0), At(6, 21, 0)>>}
    ELSE {<<At(2, sh, 0), At(6, sh + 1, 0)>>}

\* The commitment a request may add: unaligned, over parts of two slots.
ExtraIntervals(v, sh) ==
    IF FixedGrid(v)
    THEN {<<At(1, 8, 20), At(1, 8, 40)>>}
    ELSE {<<At(1, sh, 20), At(1, sh, 40)>>}

RECURSIVE FlattenCommitments(_, _, _, _)
FlattenCommitments(v, intervals, sh, eh) ==
    IF intervals = {} THEN {}
    ELSE LET iv == CHOOSE i \in intervals : TRUE
         IN CommitmentSlots(v, iv[1], iv[2], sh, eh)
            \cup FlattenCommitments(v, intervals \ {iv}, sh, eh)

\* The tasks a request may hold; deadlines are given relative to the length
\* of a day so that every window has early, next-day and beyond-horizon ones.
TaskCatalogue(slots_per_day) ==
    << [name |-> "A", duration |-> 60, priority |-> 2, difficulty |-> 2,
        preference |-> "morning", deadline_slot |-> slots_per_day + 3],
       [name |-> "H", duration |-> 30, priority |-> 1, difficulty |-> 5,
        preference |-> "any", deadline_slot |-> slots_per_day + 3],
       [name |-> "G", duration |-> 30, priority |-> 3, difficulty |-> 4,
        preference |-> "evening", deadline_slot |-> slots_per_day + 3],
       [name |-> "E", duration |-> 50, priority |-> 2, difficulty |-> 3,
        preference |-> "any", deadline_slot |-> 1000],
       [name |-> "N", duration |-> 5, priority |-> 5, difficulty |-> 1,
        preference |-> "afternoon", deadline_slot |-> slots_per_day - 1],
       [name |-> "B", duration |-> 15, priority |-> 5, difficulty |-> 5,
        preference |-> "any", deadline_slot |-> slots_per_day + 3],
       [name |-> "Z", duration |-> 30, priority |-> 0, difficulty |-> 3,
        preference |-> "any", deadline_slot |-> slots_per_day + 3],
       [name |-> "D", duration |-> 120, priority |-> 1, difficulty |-> 1,
        preference |-> "any", deadline_slot |-> 3],
       [name |-> "F", duration |-> 20, priority |-> 5, difficulty |-> 5,
        preference |-> "any", deadline_slot |-> slots_per_day + 3] >>

CatalogueIndex(name) ==
    CHOOSE k \in 1 .. Len(TaskCatalogue(0)) : TaskCatalogue(0)[k].name = name

DailyLimits == {{}, {3}}

NoSolver == [Status |-> "", SolCount |-> 0, X |-> <<>>, L |-> {}, Unread |-> {}, Lost |-> FALSE]
NoConv == [slot |-> 0, dt |-> 0, back |-> 0, step |-> "none"]

(***************************************************************************)
(* The request: preparation by the caller, the call, the solver's answer   *)
(***************************************************************************)
Init ==
    /\ \E c \in Configs :
         /\ variant = c[1]
         /\ start_hour = c[2][1]
         /\ end_hour = c[2][2]
    /\ commitments =
         IF FixedGrid(variant) \/ ValidHours(start_hour, end_hour)
         THEN FlattenCommitments(variant,
                  StandingIntervals(variant, start_hour), start_hour, end_hour)
         ELSE {}
    /\ daily_limit_slots \in DailyLimits
    /\ hard_task_threshold = 4
    /\ task_inputs = <<>>
    /\ tasks = <<>>
    /\ pc = "prepare"
    /\ schedulable_tasks = <<>>
    /\ unschedulable_tasks_info = <<>>
    /\ solver = NoSolver
    /\ result = NoResult
    /\ conv = NoConv
    /\ Day0Initialised

\* The caller appends catalogue task k: an id, and the duration in slots.
PrepareTask(k) ==
    /\ pc = "prepare"
    /\ Len(tasks) < MaxTasks
    /\ \A i \in 1 .. Len(task_inputs) :
          CatalogueIndex(task_inputs[i].name) < k
    /\ LET input == TaskCatalogue(SlotsPerDay(variant, start_hour, end_hour))[k]
           id == Len(tasks) + 1
       IN /\ task_inputs' = Append(task_inputs, [id |-> id] @@ input)
          /\ tasks' = Append(tasks,
                 [id |-> id, name |-> input.name,
                  duration_slots |-> duration_slots_of(input.duration),
                  deadline_slot |-> input.deadline_slot,
                  difficulty |-> input.difficulty,
                  priority |-> input.priority,
                  preference |-> input.preference])
    /\ UNCHANGED <<variant, start_hour, end_hour, commitments,
                   daily_limit_slots, hard_task_threshold, pc,
                   schedulable_tasks, unschedulable_tasks_info, solver,
                   result, conv>>
    /\ UNCHANGED day0Vars

\* The caller blocks the slots of one more commitment interval.
PrepareCommitment(iv) ==
    /\ pc = "prepare"
    /\ FixedGrid(variant) \/ ValidHours(start_hour, end_hour)
    /\ commitments' = commitments
          \cup CommitmentSlots(variant, iv[1], iv[2], start_hour, end_hour)
    /\ UNCHANGED <<variant, start_hour, end_hour, task_inputs, tasks,
                   daily_limit_slots, hard_task_threshold, pc,
                   schedulable_tasks, unschedulable_tasks_info, solver,
                   result, conv>>
    /\ UNCHANGED day0Vars

\* solve_schedule_gurobi up to m.optimize(): the configuration checks, the
\* filter and the return without schedulable tasks.
Call ==
    /\ pc = "prepare"
    /\ LET config_ok == FixedGrid(variant) \/ ValidHours(start_hour, end_hour)
           filtered == IF config_ok
                       THEN FilterTasks(variant, tasks,
                                TotalSlots(variant, start_hour, end_hour))
                       ELSE << <<>>, <<>> >>
       IN /\ schedulable_tasks' = filtered[1]
          /\ unschedulable_tasks_info' = filtered[2]
          /\ IF ~config_ok
             THEN /\ result' = ConfigErrorResult(variant)
                  /\ pc' = "returned"
             ELSE IF Len(filtered[1]) = 0
             THEN /\ result' = NoSchedulableTasksResult(variant, filtered[2],
                                 commitments, start_hour, end_hour)
                  /\ pc' = "returned"
             ELSE /\ result' = result
                  /\ pc' = "optimizing"
    /\ UNCHANGED <<variant, start_hour, end_hour, task_inputs, tasks,
                   commitments, daily_limit_slots, hard_task_threshold,
                   solver, conv>>
    /\ UNCHANGED day0Vars

\* What m.optimize() left behind, and the rest of the function after it.
Returns(sol) ==
    /\ solver' = sol
    /\ result' = SolvedResult(variant, schedulable_tasks,
                     unschedulable_tasks_info, sol, Len(tasks),
                     start_hour, end_hour)
    /\ pc' = "returned"
    /\ UNCHANGED <<variant, start_hour, end_hour, task_inputs, tasks,
                   commitments, daily_limit_slots, hard_task_threshold,
                   schedulable_tasks, unschedulable_tasks_info, conv>>
    /\ UNCHANGED day0Vars

Feasible ==
    FeasibleSolutions(variant, schedulable_tasks, start_hour, end_hour,
                      commitments, daily_limit_slots, hard_task_threshold)

\* The solver proved a solution optimal.
OptimizeOptimal ==
    /\ pc = "optimizing"
    /\ Feasible # {}
    /\ \E c \in OptimalSolutions(variant, schedulable_tasks, start_hour,
                     end_hour, commitments, daily_limit_slots,
                     hard_task_threshold) :
          Returns([Status |-> "OPTIMAL", SolCount |-> 1,
                   X |-> c[1], L |-> c[2], Unread |-> {}, Lost |-> FALSE])

\* The solver stopped at a limit with an incumbent: any solution.
OptimizeFound ==
    /\ pc = "optimizing"
    /\ \E c \in Incumbents(variant, schedulable_tasks, start_hour, end_hour,
                     commitments, daily_limit_slots, hard_task_threshold) :
         \E status \in {"SUBOPTIMAL", "TIME_LIMIT"} :
            Returns([Status |-> status, SolCount |-> 1,
                     X |-> c[1], L |-> c[2], Unread |-> {}, Lost |-> FALSE])

\* The time limit was reached before the solver found any solution.
OptimizeNoSolution ==
    /\ pc = "optimizing"
    /\ Returns([Status |-> "TIME_LIMIT", SolCount |-> 0, X |-> <<>>, L |-> {}, Unread |-> {}, Lost |-> FALSE])

\* The model has no solution.
OptimizeInfeasible ==
    /\ pc = "optimizing"
    /\ Feasible = {}
    /\ \E status \in {"INFEASIBLE", "INF_OR_UNBD"} :
          Returns([Status |-> status, SolCount |-> 0, X |-> <<>>, L |-> {}, Unread |-> {}, Lost |-> FALSE])

\* gp.GurobiError raised while the model is built or solved.
SolverError ==
    /\ pc = "optimizing"
    /\ solver' = [Status |-> "GurobiError", SolCount |-> 0, X |-> <<>>, L |-> {}, Unread |-> {}, Lost |-> FALSE]
    /\ result' = ErrorResult(variant, unschedulable_tasks_info, "GurobiError")
    /\ pc' = "returned"
    /\ UNCHANGED <<variant, start_hour, end_hour, task_inputs, tasks,
                   commitments, daily_limit_slots, hard_task_threshold,
                   schedulable_tasks, unschedulable_tasks_info, conv>>
    /\ UNCHANGED day0Vars

\* m.optimize() ends with a status the driver has no branch for.
OptimizeUnhandled ==
    /\ pc = "optimizing"
    /\ \E status \in {"UNBOUNDED", "INTERRUPTED"} :
          Returns([Status |-> status, SolCount |-> 0, X |-> <<>>, L |-> {}, Unread |-> {}, Lost |-> FALSE])

\* Any other exception raised while the model is built or solved.
SolverException ==
    /\ pc = "optimizing"
    /\ solver' = [Status |-> "Exception", SolCount |-> 0, X |-> <<>>, L |-> {}, Unread |-> {}, Lost |-> FALSE]
    /\ result' = ErrorResult(variant, unschedulable_tasks_info, "Exception")
    /\ pc' = "returned"
    /\ UNCHANGED <<variant, start_hour, end_hour, task_inputs, tasks,
                   commitments, daily_limit_slots, hard_task_threshold,
                   schedulable_tasks, unschedulable_tasks_info, conv>>
    /\ UNCHANGED day0Vars

Next ==
    \/ \E k \in 1 .. Len(TaskCatalogue(0)) : PrepareTask(k)
    \/ \E iv \in ExtraIntervals(variant, start_hour) : PrepareCommitment(iv)
    \/ Call
    \/ OptimizeOptimal
    \/ OptimizeFound
    \/ OptimizeNoSolution
    \/ OptimizeInfeasible
    \/ OptimizeUnhandled
    \/ SolverError
    \/ SolverException

Spec == Init /\ [][Next]_vars

(***************************************************************************)
(* The solver found a solution, but reading X[i, s].X raises for the       *)
(* variables of some tasks: the case the except clause of the record loop  *)
(* is written for.  The values are unreadable in the record loop only, or  *)
(* stay unreadable afterwards.                                             *)
(***************************************************************************)
OptimizeUnread ==
    /\ pc = "optimizing"
    /\ Feasible # {}
    /\ \E c \in OptimalSolutions(variant, schedulable_tasks, start_hour,
                     end_hour, commitments, daily_limit_slots,
                     hard_task_threshold) :
         \E status \in {"OPTIMAL", "TIME_LIMIT"}, lost \in BOOLEAN :
           \E unread \in (SUBSET (1 .. Len(schedulable_tasks))) \ {{}} :
              Returns([Status |-> status, SolCount |-> 1, X |-> c[1],
                       L |-> c[2], Unread |-> unread, Lost |-> lost])

UnreadNext ==
    \/ \E k \in 1 .. Len(TaskCatalogue(0)) : PrepareTask(k)
    \/ \E iv \in ExtraIntervals(variant, start_hour) : PrepareCommitment(iv)
    \/ Call
    \/ OptimizeUnread

SpecUnread == Init /\ [][UnreadNext]_vars

(***************************************************************************)
(* Requests without tasks: the solver called with an empty list, and the   *)
(* request handler of app.py, which answers them without calling it.       *)
(***************************************************************************)
NoTaskConfigs ==
    ({"base", "noY"} \X {<<GRID_START_HOUR, GRID_END_HOUR>>})
      \cup ({"penalty", "contextual"}
              \X {<<GRID_START_HOUR, GRID_END_HOUR>>, <<11, 13>>, <<15, 17>>,
                  <<0, 24>>})

NoTasksInit ==
    /\ \E c \in NoTaskConfigs :
         /\ variant = c[1]
         /\ start_hour = c[2][1]
         /\ end_hour = c[2][2]
    /\ commitments \in
         {{}, FlattenCommitments(variant,
                  StandingIntervals(variant, start_hour), start_hour, end_hour)}
    /\ daily_limit_slots \in DailyLimits
    /\ hard_task_threshold = 4
    /\ task_inputs = <<>>
    /\ tasks = <<>>
    /\ pc = "prepare"
    /\ schedulable_tasks = <<>>
    /\ unschedulable_tasks_info = <<>>
    /\ solver = NoSolver
    /\ result = NoResult
    /\ conv = NoConv
    /\ Day0Initialised

\* optimize_schedule of app.py with no parsed task: the baseline leisure is
\* returned and the solver of allocation_logic is not called.
OptimizeScheduleNoTasks ==
    /\ pc = "prepare"
    /\ variant = "base"
    /\ tasks = <<>>
    /\ LET total_possible_minutes == TOTAL_SLOTS * 15
           committed_minutes == Cardinality(commitments) * 15
           initial_leisure == total_possible_minutes - committed_minutes
       IN result' = [status |-> "Optimal", schedule |-> <<>>,
                     filtered_tasks_info |-> <<>>,
                     completion_rate |-> {},
                     keys |-> {"status", "schedule", "message"},
                     metrics |-> [total_leisure |-> initial_leisure,
                                  total_stress |-> 0],
                     message |-> <<"No tasks provided to schedule.">>]
    /\ pc' = "returned"
    /\ UNCHANGED <<variant, start_hour, end_hour, task_inputs, tasks,
                   commitments, daily_limit_slots, hard_task_threshold,
                   schedulable_tasks, unschedulable_tasks_info, solver, conv>>
    /\ UNCHANGED day0Vars

NoTasksNext ==
    \/ \E iv \in ExtraIntervals(variant, start_hour) : PrepareCommitment(iv)
    \/ Call
    \/ OptimizeScheduleNoTasks

SpecNoTasks == NoTasksInit /\ [][NoTasksNext]_vars

(***************************************************************************)
(* Scenario S2 on the default grid: one task, preference morning, 60       *)
(* minutes, deadline at the end of day 0, no commitment, no daily limit;   *)
(* alone, and followed by the two tasks of priority 5 and difficulty 5     *)
(* that the Pi filter rejects (scenario S3).                               *)
(***************************************************************************)
ScenarioS2Task ==
    [name |-> "A", duration |-> 60, priority |-> 2, difficulty |-> 2,
     preference |-> "morning", deadline_slot |-> SLOTS_PER_DAY - 1]

ScenarioTasks ==
    {<<ScenarioS2Task>>,
     <<ScenarioS2Task, TaskCatalogue(SLOTS_PER_DAY)[CatalogueIndex("B")],
       TaskCatalogue(SLOTS_PER_DAY)[CatalogueIndex("F")]>>}

ScenarioInit ==
    /\ variant \in {"base", "noY", "penalty", "contextual"}
    /\ start_hour = GRID_START_HOUR
    /\ end_hour = GRID_END_HOUR
    /\ commitments = {}
    /\ daily_limit_slots = {}
    /\ hard_task_threshold = 4
    /\ \E scenario \in ScenarioTasks :
         /\ task_inputs = [i \in 1 .. Len(scenario) |-> [id |-> i] @@ scenario[i]]
         /\ tasks = [i \in 1 .. Len(scenario) |->
                       [id |-> i, name |-> scenario[i].name,
                        duration_slots |-> duration_slots_of(scenario[i].duration),
                        deadline_slot |-> scenario[i].deadline_slot,
                        difficulty |-> scenario[i].difficulty,
                        priority |-> scenario[i].priority,
                        preference |-> scenario[i].preference]]
    /\ pc = "prepare"
    /\ schedulable_tasks = <<>>
    /\ unschedulable_tasks_info = <<>>
    /\ solver = NoSolver
    /\ result = NoResult
    /\ conv = NoConv
    /\ Day0Initialised

ScenarioNext ==
    \/ Call
    \/ OptimizeOptimal
    \/ OptimizeFound
    \/ OptimizeNoSolution
    \/ SolverError

SpecScenario == ScenarioInit /\ [][ScenarioNext]_vars

(***************************************************************************)
(* The grid conversions on their own: a slot of a valid window is turned   *)
(* into its datetime and the datetime back into a slot.                    *)
(***************************************************************************)
ValidWindows ==
    {w \in (0 .. 23) \X (1 .. 24) : ValidHours(w[1], w[2])}

GridInit ==
    /\ variant \in {"base", "noY", "penalty", "contextual"}
    /\ \E w \in ValidWindows :
         /\ FixedGrid(variant) => w = <<GRID_START_HOUR, GRID_END_HOUR>>
         /\ start_hour = w[1]
         /\ end_hour = w[2]
    /\ conv = NoConv
    /\ pc = "grid"
    /\ commitments = {}
    /\ daily_limit_slots = {}
    /\ hard_task_threshold = 4
    /\ task_inputs = <<>>
    /\ tasks = <<>>
    /\ schedulable_tasks = <<>>
    /\ unschedulable_tasks_info = <<>>
    /\ solver = NoSolver
    /\ result = NoResult
    /\ Day0Initialised

\* slot_to_datetime(slot) for a slot of the grid.
SlotToDatetime(slot) ==
    /\ pc = "grid"
    /\ conv.step = "none"
    /\ conv' = [slot |-> slot,
                dt |-> slot_to_datetime(variant, slot, start_hour, end_hour),
                back |-> 0, step |-> "datetime"]
    /\ UNCHANGED <<variant, start_hour, end_hour, pc, solveVars>>
    /\ UNCHANGED day0Vars

\* datetime_to_slot of the datetime just computed.
DatetimeToSlot ==
    /\ pc = "grid"
    /\ conv.step = "datetime"
    /\ conv' = [conv EXCEPT
                  !.back = datetime_to_slot(variant, conv.dt, start_hour,
                                            end_hour),
                  !.step = "slot"]
    /\ UNCHANGED <<variant, start_hour, end_hour, pc, solveVars>>
    /\ UNCHANGED day0Vars

\* The datetimes around the ends of the horizon handed to datetime_to_slot.
ProbeDatetimes ==
    {At(0, 0, 0) - 1, At(0, 0, 0), At(TOTAL_DAYS, 0, 0), At(TOTAL_DAYS, 0, 0) + 1}

\* Datetimes of the first, the second and the last calendar day relative to
\* the window: just after midnight, at the start of the window, one minute
\* before its end, and just before the next midnight.
WindowProbes(sh, eh) ==
    UNION {{At(d, 0, 1), At(d, sh, 0), At(d, eh, 0) - 1, At(d, 23, 59)} :
              d \in {0, 1, TOTAL_DAYS - 1}}

\* datetime_to_slot(dt) for a datetime that need not lie on the grid.
ConvertDatetime(dt) ==
    /\ pc = "grid"
    /\ conv.step = "none"
    /\ conv' = [slot |-> 0, dt |-> dt,
                back |-> datetime_to_slot(variant, dt, start_hour, end_hour),
                step |-> "probe"]
    /\ UNCHANGED <<variant, start_hour, end_hour, pc, solveVars>>
    /\ UNCHANGED day0Vars

\* The commitment intervals flattened on their own: inside a slot, up to a
\* slot boundary, overnight up to the first slot of day 1, and up to the
\* start of slot 0.
FlattenedIntervals(sh, eh) ==
    {<<At(0, sh, 20), At(0, sh, 40)>>,
     <<At(0, sh, 0), At(0, sh, 30)>>,
     <<At(0, eh - 1, 0), At(1, sh, 0)>>,
     <<At(0, sh, 0) - 60, At(0, sh, 0)>>}

\* The caller flattens the single commitment [iv[1], iv[2]).
FlattenInterval(iv) ==
    /\ pc = "grid"
    /\ conv.step = "none"
    /\ commitments' =
          CommitmentSlots(variant, iv[1], iv[2], start_hour, end_hour)
    /\ conv' = [slot |-> 0, dt |-> iv[1], back |-> 0, step |-> "flattened",
                until |-> iv[2]]
    /\ UNCHANGED <<variant, start_hour, end_hour, pc, task_inputs, tasks,
                   daily_limit_slots, hard_task_threshold, schedulable_tasks,
                   unschedulable_tasks_info, solver, result>>
    /\ UNCHANGED day0Vars

GridNext ==
    \/ \E slot \in Slots(TotalSlots(variant, start_hour, end_hour)) :
          SlotToDatetime(slot)
    \/ DatetimeToSlot
    \/ \E dt \in ProbeDatetimes \cup WindowProbes(start_hour, end_hour) :
          ConvertDatetime(dt)
    \/ \E iv \in FlattenedIntervals(start_hour, end_hour) : FlattenInterval(iv)

SpecGrid == GridInit /\ [][GridNext]_vars

(***************************************************************************)
(* The anchor getter, get_day0 of the fixed-grid modules (today at 08:00)  *)
(* and get_day0_ref_midnight of the dynamic ones (today at 00:00), called  *)
(* by the request threads while the wall clock runs past midnight.  A      *)
(* thread may be preempted between any two statements of the getter.       *)
(***************************************************************************)
FirstCallClock == At(0, 23, 59)
LastClock == At(1, 0, 1)

Day0Init ==
    /\ variant \in {"base", "noY", "penalty", "contextual"}
    /\ start_hour = GRID_START_HOUR
    /\ end_hour = GRID_END_HOUR
    /\ wall_clock = FirstCallClock
    /\ day0_naive_local = {}
    /\ callers = [t \in RequestThreads |-> IdleCaller]
    /\ conv = NoConv
    /\ pc = "anchor"
    /\ commitments = {}
    /\ daily_limit_slots = {}
    /\ hard_task_threshold = 4
    /\ task_inputs = <<>>
    /\ tasks = <<>>
    /\ schedulable_tasks = <<>>
    /\ unschedulable_tasks_info = <<>>
    /\ solver = NoSolver
    /\ result = NoResult

AnchorUnchanged ==
    UNCHANGED <<variant, start_hour, end_hour, pc, conv, solveVars>>

\* if _day0_naive_local is None:
GetDay0Test(t) ==
    /\ pc = "anchor"
    /\ callers[t].pc = "idle"
    /\ callers[t].calls < MaxCalls
    /\ callers' = [callers EXCEPT
          ![t].pc = IF day0_naive_local = {} THEN "now" ELSE "return",
          ![t].calls = @ + 1]
    /\ UNCHANGED <<wall_clock, day0_naive_local>>
    /\ AnchorUnchanged

\* now = datetime.now(); start_of_today = now.replace(hour=..., minute=0, ...)
GetDay0Now(t) ==
    /\ pc = "anchor"
    /\ callers[t].pc = "now"
    /\ callers' = [callers EXCEPT
          ![t].pc = "assign",
          ![t].start_of_today =
              {(wall_clock \div MinutesPerDay) * MinutesPerDay
                 + (IF FixedGrid(variant) THEN GRID_START_HOUR ELSE 0) * 60}]
    /\ UNCHANGED <<wall_clock, day0_naive_local>>
    /\ AnchorUnchanged

\* _day0_naive_local = start_of_today
GetDay0Assign(t) ==
    /\ pc = "anchor"
    /\ callers[t].pc = "assign"
    /\ day0_naive_local' = callers[t].start_of_today
    /\ callers' = [callers EXCEPT ![t].pc = "return"]
    /\ UNCHANGED wall_clock
    /\ AnchorUnchanged

\* return _day0_naive_local
GetDay0Return(t) ==
    /\ pc = "anchor"
    /\ callers[t].pc = "return"
    /\ callers' = [callers EXCEPT
          ![t].pc = "idle",
          ![t].returned = @ \cup day0_naive_local]
    /\ UNCHANGED <<wall_clock, day0_naive_local>>
    /\ AnchorUnchanged

\* A minute passes.
Tick ==
    /\ pc = "anchor"
    /\ wall_clock < LastClock
    /\ wall_clock' = wall_clock + 1
    /\ UNCHANGED <<day0_naive_local, callers>>
    /\ AnchorUnchanged

Day0Next ==
    \/ \E t \in RequestThreads :
          \/ GetDay0Test(t)
          \/ GetDay0Now(t)
          \/ GetDay0Assign(t)
          \/ GetDay0Return(t)
    \/ Tick

SpecDay0 == Day0Init /\ [][Day0Next]_vars

(***************************************************************************)
(* Properties of the returned schedule                                     *)
(***************************************************************************)
Returned == pc = "returned"

Schedule == result.schedule

Entries == 1 .. Len(result.schedule)

GridSlotsPerDay == SlotsPerDay(variant, start_hour, end_hour)

GridTotalSlots == TotalSlots(variant, start_hour, end_hour)

\* The input task an entry was built from (ids are positions in tasks).
TaskOf(e) == tasks[e.id]

\* C1: in every returned result, any two distinct schedule entries occupy
\* disjoint inclusive slot ranges [start_slot, end_slot].
DisjointEntries ==
    Returned =>
      \A a, b \in Entries :
         a # b => \/ Schedule[a].end_slot < Schedule[b].start_slot
                  \/ Schedule[b].end_slot < Schedule[a].start_slot

\* Two entries of more than one slot each, the second right after the first.
AdjacentEntries ==
    /\ Returned
    /\ \E a, b \in Entries :
         /\ Schedule[a].start_slot < Schedule[a].end_slot
         /\ Schedule[b].start_slot < Schedule[b].end_slot
         /\ Schedule[a].end_slot + 1 = Schedule[b].start_slot

\* C2: no entry of a returned schedule occupies a blocked slot: every slot s
\* with start_slot <= s <= end_slot is outside the keys of commitments.
NoEntryOnBlockedSlot ==
    Returned =>
      \A a \in Entries :
         \A s \in Schedule[a].start_slot .. Schedule[a].end_slot :
            s \notin commitments

\* An entry of several slots placed right before a blocked slot.
EntryEndsBeforeBlockedSlot ==
    /\ Returned
    /\ \E a \in Entries :
         /\ Schedule[a].start_slot < Schedule[a].end_slot
         /\ Schedule[a].end_slot + 1 \in commitments

\* The deadline of a task clamped into [0, total_slots).
ClampedDeadline(task) == Max(0, Min(task.deadline_slot, GridTotalSlots - 1))

\* C3: every entry ends at or before the deadline slot of its input task,
\* the deadline taken after clamping into [0, total_slots).
EntriesMeetDeadline ==
    Returned =>
      \A a \in Entries :
         Schedule[a].end_slot <= ClampedDeadline(TaskOf(Schedule[a]))

\* An entry that ends exactly on its deadline, in a schedule that also holds
\* an entry whose deadline lay beyond the horizon.
EntryEndsOnDeadline ==
    /\ Returned
    /\ \E a, b \in Entries :
         /\ Schedule[a].end_slot = TaskOf(Schedule[a]).deadline_slot
         /\ TaskOf(Schedule[b]).deadline_slot >= GridTotalSlots

\* The ids of the tasks the filter admitted, and of those it reported.
AdmittedIds == {schedulable_tasks[j].id : j \in 1 .. Len(schedulable_tasks)}

ScheduledIds == {Schedule[a].id : a \in Entries}

FilteredIds ==
    {result.filtered_tasks_info[j].id :
        j \in 1 .. Len(result.filtered_tasks_info)}

\* C4: a task is admitted to the model if and only if its difficulty and its
\* priority are positive and the duration in minutes supplied for it is at
\* least ceil(difficulty * priority * ln(10/3)), whatever the duration.
AdmittedIffSuppliedMinutesSuffice ==
    (pc \in {"optimizing", "returned"}
       /\ (FixedGrid(variant) \/ ValidHours(start_hour, end_hour)))
    => \A i \in 1 .. Len(tasks) :
          i \in AdmittedIds
          <=> /\ task_inputs[i].difficulty > 0
              /\ task_inputs[i].priority > 0
              /\ task_inputs[i].duration >=
                    required_duration_min_int(task_inputs[i].difficulty
                                              * task_inputs[i].priority)

\* C4 as amended: a task is admitted if and only if its difficulty and its
\* priority are positive, 15 minutes times the number of slots handed to the
\* solver (the supplied minutes rounded up to whole slots) is at least
\* difficulty * priority * ln(10/3), and, in the contextual variant, its
\* deadline slot is at least duration_slots - 1.
AdmittedIffSlotMinutesSuffice ==
    (pc \in {"optimizing", "returned"}
       /\ (FixedGrid(variant) \/ ValidHours(start_hour, end_hour)))
    => \A i \in 1 .. Len(tasks) :
          i \in AdmittedIds
          <=> /\ tasks[i].difficulty > 0
              /\ tasks[i].priority > 0
              /\ tasks[i].duration_slots * 15 * 10000000
                    >= tasks[i].difficulty * tasks[i].priority * 12039728
              /\ variant = "contextual"
                    => tasks[i].deadline_slot >= tasks[i].duration_slots - 1

\* A task admitted on fewer supplied minutes than the minimum, next to a
\* task with positive difficulty and priority that was not admitted.
ShortTaskAdmittedLongTaskFiltered ==
    /\ pc \in {"optimizing", "returned"}
    /\ \E i, j \in 1 .. Len(tasks) :
         /\ i \in AdmittedIds
         /\ task_inputs[i].duration * 10000000
               < tasks[i].difficulty * tasks[i].priority * 12039728
         /\ j \notin AdmittedIds
         /\ tasks[j].difficulty > 0
         /\ tasks[j].priority > 0

\* C5: whenever the status is Optimal, Suboptimal or Time Limit Reached,
\* every input task is in exactly one of schedule and filtered_tasks_info.
ResultPartitionsTasks ==
    (Returned /\ result.status \in {"Optimal", "Suboptimal",
                                    "Time Limit Reached"})
    => \A i \in 1 .. Len(tasks) :
          (i \in ScheduledIds) # (i \in FilteredIds)

\* C5 as amended: whenever the status is Optimal, Suboptimal or Time Limit
\* Reached and the solver holds at least one solution, every input task is
\* in exactly one of schedule and filtered_tasks_info.
SolutionPartitionsTasks ==
    (Returned /\ solver.SolCount > 0
       /\ result.status \in {"Optimal", "Suboptimal", "Time Limit Reached"})
    => \A i \in 1 .. Len(tasks) :
          (i \in ScheduledIds) # (i \in FilteredIds)

\* The time limit was reached with an incumbent: one task is scheduled up to
\* the last slot of the grid and another one was filtered.
IncumbentAtTimeLimit ==
    /\ Returned
    /\ result.status = "Time Limit Reached"
    /\ solver.SolCount > 0
    /\ FilteredIds # {}
    /\ \E a \in Entries : Schedule[a].end_slot = GridTotalSlots - 1

\* The wall-clock hour at which an entry starts.
StartHourOf(e) == MinutesIntoDay(e.startTime) \div 60

\* C6: every entry whose preference is morning, afternoon or evening starts
\* in a slot whose start hour is in [8,12), [12,16), [16,22) respectively.
EntriesStartInPreferredPeriod ==
    Returned =>
      \A a \in Entries :
         LET hour == StartHourOf(Schedule[a])
             pref == Schedule[a].preference
         IN /\ pref = "morning" => (8 <= hour /\ hour < 12)
            /\ pref = "afternoon" => (12 <= hour /\ hour < 16)
            /\ pref = "evening" => (16 <= hour /\ hour < 22)

\* An afternoon entry in a window that opens in the morning, at an offset a
\* fixed grid would call morning.
AfternoonEntryInLateWindow ==
    /\ Returned
    /\ ~FixedGrid(variant)
    /\ start_hour = 11
    /\ \E a \in Entries :
         /\ Schedule[a].preference = "afternoon"
         /\ Schedule[a].start_slot % GridSlotsPerDay < 16

HardEntries == {a \in Entries : Schedule[a].difficulty >= hard_task_threshold}

DayOfSlot(s) == s \div GridSlotsPerDay

\* C7: for every day, at most one entry with difficulty >= hard_task_threshold
\* has its start_slot in that day.
OneHardStartPerDay ==
    Returned =>
      \A d \in Days :
         Cardinality({a \in HardEntries :
                         DayOfSlot(Schedule[a].start_slot) = d}) <= 1

\* Two hard entries in one schedule, starting on consecutive days.
TwoHardEntries ==
    /\ Returned
    /\ \E a, b \in HardEntries :
         DayOfSlot(Schedule[a].start_slot) + 1
            = DayOfSlot(Schedule[b].start_slot)

RECURSIVE EntrySlotsInDay(_, _)
\* The number of slots of the first n entries that fall inside day d.
EntrySlotsInDay(n, d) ==
    IF n = 0 THEN 0
    ELSE EntrySlotsInDay(n - 1, d)
         + Cardinality({s \in Schedule[n].start_slot .. Schedule[n].end_slot :
                           DayOfSlot(s) = d})

\* C8: with daily_limit_slots = K >= 0, for every day the number of slots
\* occupied by entries inside that day is at most K, each slot counted in
\* the day it belongs to, also for an entry that spans two days.
DailyLimitRespected ==
    Returned =>
      \A K \in daily_limit_slots :
         K >= 0 => \A d \in Days : EntrySlotsInDay(Len(Schedule), d) <= K

\* Under a limit, an entry that spans two days and fills the limit of one.
SpanningEntryFillsLimit ==
    /\ Returned
    /\ \E K \in daily_limit_slots, a \in Entries, d \in Days :
         /\ DayOfSlot(Schedule[a].start_slot) # DayOfSlot(Schedule[a].end_slot)
         /\ EntrySlotsInDay(Len(Schedule), d) = K

\* C9: every entry has end_slot = start_slot + ceil(duration_min / 15) - 1
\* and 0 <= start_slot <= end_slot < total_slots.
EntrySlotRange ==
    Returned =>
      \A a \in Entries :
         /\ Schedule[a].end_slot
               = Schedule[a].start_slot
                 + CeilDiv(Schedule[a].duration_min, 15) - 1
         /\ 0 <= Schedule[a].start_slot
         /\ Schedule[a].start_slot <= Schedule[a].end_slot
         /\ Schedule[a].end_slot < GridTotalSlots

\* An entry of several slots that ends on the last slot of the grid.
EntryEndsOnLastSlot ==
    /\ Returned
    /\ \E a \in Entries :
         /\ Schedule[a].start_slot < Schedule[a].end_slot
         /\ Schedule[a].end_slot = GridTotalSlots - 1

\* C10: for every valid window and every slot s of the grid,
\* datetime_to_slot(slot_to_datetime(s)) = s.
RoundTrip == conv.step = "slot" => conv.back = conv.slot

\* The last slot of a window that ends at midnight has made the round trip.
LastSlotOfLateWindowConverted ==
    /\ conv.step = "slot"
    /\ ~FixedGrid(variant)
    /\ start_hour > 0
    /\ end_hour = 24
    /\ conv.slot = GridTotalSlots - 1

FlatteningCoversInterval ==
    conv.step = "flattened" =>
       /\ commitments =
             {datetime_to_slot(variant, x, start_hour, end_hour) :
                 x \in conv.dt .. (conv.until - 1)}
       /\ \A s \in commitments :
             slot_to_datetime(variant, s, start_hour, end_hour) # conv.until

\* The slots that are neither blocked nor inside an entry of the schedule.
UnblockedUnoccupied ==
    {s \in Slots(GridTotalSlots) :
        /\ s \notin commitments
        /\ \A a \in Entries :
              s < Schedule[a].start_slot \/ s > Schedule[a].end_slot}

FoundSolutionReturned ==
    /\ Returned
    /\ solver.SolCount > 0
    /\ result.status \in {"Optimal", "Suboptimal", "Time Limit Reached"}

\* C13 (as stated): in the contextual variant, whenever a schedule is
\* returned from a found solution (Optimal, Suboptimal or Time Limit Reached
\* with an incumbent), raw_total_leisure_minutes is 15 times the number of
\* slots that are neither blocked nor occupied by a schedule entry.
LeisureIsFreeSlots ==
    (variant = "contextual" /\ FoundSolutionReturned) =>
       result.metrics.raw_total_leisure_minutes
          = 15 * Cardinality(UnblockedUnoccupied)

\* C13 (amended): the equality holds for status Optimal; an incumbent
\* returned as Suboptimal or Time Limit Reached reports 15 minutes for each
\* slot it marks as leisure, all of them unblocked and unoccupied, so at
\* most 15 times their number.
LeisureIsFreeSlotsWhenOptimal ==
    (variant = "contextual" /\ FoundSolutionReturned) =>
       /\ result.metrics.raw_total_leisure_minutes = 15 * Cardinality(solver.L)
       /\ solver.L \subseteq UnblockedUnoccupied
       /\ result.status = "Optimal" => solver.L = UnblockedUnoccupied

\* An optimal contextual schedule of two entries beside blocked slots.
OptimalContextualLeisure ==
    /\ variant = "contextual"
    /\ FoundSolutionReturned
    /\ result.status = "Optimal"
    /\ Len(Schedule) = 2
    /\ commitments # {}
    /\ result.metrics.raw_total_leisure_minutes
          = 15 * (GridTotalSlots - Cardinality(commitments)
                  - Schedule[1].duration_min \div 15
                  - Schedule[2].duration_min \div 15)

\* C14 (as stated): in every result that reports a completion_rate, it is
\* exactly (number of schedule entries) / (number of tasks in the original
\* input list), and 0 for the empty list.
CompletionRateIsQuotient ==
    Returned =>
      \A r \in result.completion_rate :
         IF Len(tasks) = 0 THEN r = 0
         ELSE r * Len(tasks) = 100 * Len(Schedule)

\* C14 (amended): the reported completion_rate is that quotient rounded to
\* two decimals (within half a hundredth of it), and 0 for the empty list.
CompletionRateIsRoundedQuotient ==
    Returned =>
      \A r \in result.completion_rate :
         IF Len(tasks) = 0 THEN r = 0
         ELSE /\ 2 * (r * Len(tasks) - 100 * Len(Schedule)) <= Len(tasks)
              /\ 2 * (100 * Len(Schedule) - r * Len(tasks)) <= Len(tasks)

\* One of three input tasks scheduled, the others filtered out: 0.33.
OneOfThreeScheduled ==
    /\ Returned
    /\ Len(tasks) = 3
    /\ Len(Schedule) = 1
    /\ Cardinality(FilteredIds) = 2
    /\ result.completion_rate = {33}

\* The leisure minutes a result reports, under either name of the key.
ReportedLeisure ==
    {result.metrics[k] :
        k \in DOMAIN result.metrics
                \cap {"total_leisure", "raw_total_leisure_minutes"}}

\* C15 (as stated): with an empty task list the result has status Optimal,
\* an empty schedule and leisure 15 * (total_slots - number of blocked
\* slots), which is 5880 on the default grid without blocked intervals.
EmptyRequestIsOptimal ==
    (Returned /\ tasks = <<>>) =>
       /\ result.status = "Optimal"
       /\ Schedule = <<>>
       /\ ReportedLeisure
            = {15 * (GridTotalSlots - Cardinality(commitments))}

\* C15 (amended): the status is Optimal when the request handler answers,
\* and No Schedulable Tasks when the solver itself is called with the empty
\* list; the schedule and the leisure are as stated in both cases.
EmptyRequestLeisure ==
    (Returned /\ tasks = <<>>) =>
       /\ result.status \in {"Optimal", "No Schedulable Tasks"}
       /\ result.status = "Optimal" <=> "filtered_tasks_info" \notin result.keys
       /\ Schedule = <<>>
       /\ ReportedLeisure
            = {15 * (GridTotalSlots - Cardinality(commitments))}
       /\ (commitments = {} /\ start_hour = GRID_START_HOUR
             /\ end_hour = GRID_END_HOUR) => ReportedLeisure = {5880}

\* Scenario S1 answered by the request handler.
EmptyRequestOnFreeGrid ==
    /\ Returned
    /\ tasks = <<>>
    /\ commitments = {}
    /\ result.status = "Optimal"
    /\ ReportedLeisure = {5880}

\* The request is scenario S2.
IsScenarioS2 ==
    /\ Len(task_inputs) = 1
    /\ task_inputs[1] = [id |-> 1] @@ ScenarioS2Task
    /\ commitments = {}
    /\ start_hour = GRID_START_HOUR /\ end_hour = GRID_END_HOUR

\* C16 (as stated): in scenario S2 every optimal solution of every variant
\* has one entry with start_slot in [0, 13], end_slot = start_slot + 3 and
\* completion_rate 1.0.
MorningTaskEndsByNoon ==
    (Returned /\ IsScenarioS2 /\ result.status = "Optimal") =>
       /\ Len(Schedule) = 1
       /\ Schedule[1].start_slot \in 0 .. 13
       /\ Schedule[1].end_slot = Schedule[1].start_slot + 3
       /\ result.completion_rate = {100}

\* C16 (amended): the entry starts in a morning slot of day 0, [0, 15]; in
\* the base and no-Y variants the starts 14 and 15 are optimal as well, in
\* the penalty and contextual variants the start stays in [0, 13].
MorningTaskStartsInMorning ==
    (Returned /\ IsScenarioS2 /\ result.status = "Optimal") =>
       /\ Len(Schedule) = 1
       /\ Schedule[1].start_slot \in 0 .. 15
       /\ variant \in {"penalty", "contextual"}
             => Schedule[1].start_slot \in 0 .. 13
       /\ Schedule[1].end_slot = Schedule[1].start_slot + 3
       /\ result.completion_rate = {100}

\* An optimal base schedule whose entry starts at 11:45 and ends at 12:45.
MorningTaskPastNoon ==
    /\ Returned
    /\ IsScenarioS2
    /\ variant = "base"
    /\ result.status = "Optimal"
    /\ Len(Schedule) = 1
    /\ Schedule[1].start_slot = 15
    /\ Schedule[1].end_slot = 18

\* The input tasks with positive priority and difficulty that fail the Pi
\* test on the duration handed to the solver.
PiRejected ==
    {i \in 1 .. Len(tasks) : ~NonPositive(tasks[i]) /\ ~PiConditionMet(tasks[i])}

\* The reports of filtered_tasks_info about input task i.
ReportsOf(i) ==
    {j \in 1 .. Len(result.filtered_tasks_info) :
        result.filtered_tasks_info[j].id = i}

ReturnedAfterFiltering ==
    Returned /\ (FixedGrid(variant) \/ ValidHours(start_hour, end_hour))

\* C17 (as stated): on every return path after filtering, every task
\* rejected by the Pi predicate has exactly one report, with
\* required_duration_min = ceil(difficulty * priority * ln(10/3)) and its
\* actual (supplied) duration in minutes, and is not in the schedule.
PiRejectedReportedWithSuppliedMinutes ==
    ReturnedAfterFiltering =>
      /\ "filtered_tasks_info" \in result.keys
      /\ \A i \in PiRejected :
           /\ Cardinality(ReportsOf(i)) = 1
           /\ \A j \in ReportsOf(i) :
                /\ result.filtered_tasks_info[j].required_duration_min
                     = {required_duration_min_int(
                           task_inputs[i].difficulty * task_inputs[i].priority)}
                /\ result.filtered_tasks_info[j].current_duration_min
                     = task_inputs[i].duration
           /\ i \notin ScheduledIds

\* C17 (amended): the report holds the duration handed to the solver,
\* 15 * duration_slots, which is the supplied duration rounded up to whole
\* slots.
PiRejectedReportedWithSlotMinutes ==
    ReturnedAfterFiltering =>
      /\ "filtered_tasks_info" \in result.keys
      /\ \A i \in PiRejected :
           /\ Cardinality(ReportsOf(i)) = 1
           /\ \A j \in ReportsOf(i) :
                /\ result.filtered_tasks_info[j].required_duration_min
                     = {required_duration_min_int(
                           task_inputs[i].difficulty * task_inputs[i].priority)}
                /\ result.filtered_tasks_info[j].current_duration_min
                     = 15 * duration_slots_of(task_inputs[i].duration)
           /\ i \notin ScheduledIds

\* A solver error after the filter rejected the 20-minute task of priority 5
\* and difficulty 5 and admitted another task: the rejected task is reported
\* with 31 required minutes and 30 current minutes.
ErrorReturnsPiReports ==
    /\ ReturnedAfterFiltering
    /\ result.status \in {"Error", "Gurobi Error"}
    /\ solver.Status = "GurobiError"
    /\ \E i \in PiRejected :
          /\ task_inputs[i].duration = 20
          /\ \E j \in ReportsOf(i) :
                /\ result.filtered_tasks_info[j].required_duration_min = {31}
                /\ result.filtered_tasks_info[j].current_duration_min = 30

\* C18: for every (start_hour, end_hour) that is not a valid window the
\* solver returns status Configuration Error with an empty schedule and an
\* empty filtered_tasks_info, filters no task and builds no model.
InvalidWindowIsConfigurationError ==
    (Returned /\ ~FixedGrid(variant) /\ ~ValidHours(start_hour, end_hour)) =>
       /\ result.status = "Configuration Error"
       /\ "schedule" \in result.keys /\ Schedule = <<>>
       /\ "filtered_tasks_info" \in result.keys
       /\ result.filtered_tasks_info = <<>>
       /\ schedulable_tasks = <<>> /\ unschedulable_tasks_info = <<>>
       /\ solver = NoSolver

\* The eight status values, written as the code spaces them.
StatusValues ==
    {"Optimal", "Suboptimal", "Time Limit Reached", "Infeasible",
     "Infeasible or Unbounded", "No Schedulable Tasks", "Configuration Error",
     "Error"}

\* C19: the status of every result is one of the eight values, and an
\* unhandled solver status, a solver error and an unexpected exception are
\* reported as Error.
StatusIsOneOfEight ==
    Returned =>
       /\ result.status \in StatusValues
       /\ solver.Status \in {"UNBOUNDED", "INTERRUPTED", "GurobiError",
                             "Exception"}
             => result.status = "Error"

NoEligibleTask ==
    ReturnedAfterFiltering /\ Len(tasks) > 0 /\ schedulable_tasks = <<>>

ModelInfeasible ==
    Returned /\ result.status \in {"Infeasible", "Infeasible or Unbounded"}

UnmeetableDeadline ==
    {i \in 1 .. Len(tasks) :
        /\ ~NonPositive(tasks[i]) /\ PiConditionMet(tasks[i])
        /\ Min(tasks[i].deadline_slot, GridTotalSlots - 1)
              < tasks[i].duration_slots - 1}

\* C21: a well-formed task whose deadline cannot be met is never an error:
\* unless the solver itself raises, the result is not Infeasible or Error
\* because of it, the task is reported in filtered_tasks_info, and with
\* status Optimal every other admissible task is in the schedule.
UnmeetableDeadlineIsFiltered ==
    (ReturnedAfterFiltering /\ solver.Status \notin {"GurobiError", "Exception"})
    => \A i \in UnmeetableDeadline :
          /\ i \in FilteredIds
          /\ result.status \notin {"Infeasible", "Infeasible or Unbounded",
                                   "Error", "Exception"}
          /\ result.status = "Optimal" =>
                \A j \in 1 .. Len(tasks) :
                   (j # i /\ ~NonPositive(tasks[j]) /\ PiConditionMet(tasks[j])
                      /\ j \notin UnmeetableDeadline) => j \in ScheduledIds

\* A found solution from which the driver recovered no start slot for some
\* admitted task.
StartSlotNotRecovered ==
    /\ Returned
    /\ SolutionFound(solver)
    /\ Len(schedulable_tasks) > 0
    /\ \E i \in 1 .. Len(schedulable_tasks) :
          schedulable_tasks[i].id \notin ScheduledIds

InMessage(sentence) ==
    \E k \in 1 .. Len(result.message) : result.message[k] = sentence

\* C22: if the solver reports a found solution but for some admitted task
\* no start slot is recovered, the returned status is the solver's status
\* and the returned message contains the mismatch warning.
MismatchWarningReturned ==
    StartSlotNotRecovered =>
       /\ result.status = status_map(solver.Status)
       /\ InMessage("Warning: Mismatch")

\* C23: for every datetime dt of calendar day d (0 <= d <= 6, counted from
\* day-0 midnight), datetime_to_slot(dt) is the first slot of day d when the
\* time of day is before start_hour:00 and the last slot of day d when it
\* is at or after end_hour:00.
OutsideWindowMapsToSameDay ==
    (conv.step = "probe" /\ At(0, 0, 0) <= conv.dt
        /\ conv.dt < At(TOTAL_DAYS, 0, 0)) =>
       LET d == conv.dt \div MinutesPerDay
           m == MinutesIntoDay(conv.dt)
       IN /\ m < start_hour * 60 => conv.back = d * GridSlotsPerDay
          /\ m >= end_hour * 60
                => conv.back = d * GridSlotsPerDay + GridSlotsPerDay - 1

\* The start of slot s as a datetime.
SlotStart(s) == slot_to_datetime(variant, s, start_hour, end_hour)

\* C24: every slot blocked for a commitment [t1, t2) overlaps the interval
\* (slot start < t2 and slot start + 15 min > t1), and a commitment that
\* overlaps no slot of the grid blocks no slot.
BlockedSlotsOverlapInterval ==
    conv.step = "flattened" =>
       /\ \A s \in commitments :
             SlotStart(s) < conv.until /\ SlotStart(s) + 15 > conv.dt
       /\ (\A s \in Slots(GridTotalSlots) :
              ~(SlotStart(s) < conv.until /\ SlotStart(s) + 15 > conv.dt))
          => commitments = {}

\* C26: datetime_to_slot is monotone non-decreasing over all datetimes,
\* before, inside and after the horizon and the daily window, and its
\* result is in [0, total_slots).
DatetimeToSlotMonotone ==
    conv.step = "probe" =>
       /\ 0 <= conv.back /\ conv.back < GridTotalSlots
       /\ \A dt2 \in ProbeDatetimes \cup WindowProbes(start_hour, end_hour) :
             conv.dt <= dt2 =>
                conv.back <= datetime_to_slot(variant, dt2, start_hour, end_hour)

\* C25: every entry of a returned schedule lies within a single day of the
\* grid (start_slot div slots_per_day = end_slot div slots_per_day), so its
\* endTime is startTime + duration_min, is not later than end_hour:00 of
\* the start day, and the end-time clamp is never taken.
EntriesWithinOneDay ==
    Returned =>
      \A a \in Entries :
         LET e == Schedule[a]
             day_end_limit ==
                 (e.startTime \div MinutesPerDay) * MinutesPerDay
                   + (IF FixedGrid(variant) THEN GRID_END_HOUR ELSE end_hour) * 60
         IN /\ DayOfSlot(e.start_slot) = DayOfSlot(e.end_slot)
            /\ e.endTime = e.startTime + e.duration_min
            /\ e.endTime <= day_end_limit

\* The datetimes the calls of the getter have returned so far.
ReturnedAnchors == UNION {callers[t].returned : t \in RequestThreads}

\* C27: within one process every call of the day-0 anchor getter returns
\* the same datetime, also when the wall clock passes midnight between the
\* calls and when the first calls come from concurrent request threads.
AnchorIsConstant == Cardinality(ReturnedAnchors) <= 1

\* The model the solver is about to optimise, in the base or no-Y variant.
FixedGridModelBuilt == pc = "optimizing" /\ variant \in {"base", "noY"}

\* C28: in the base and no-Y variants every start-slot assignment that
\* satisfies the hard constraints has the same maximal leisure,
\* 15 * (total_slots - |C| - sum of duration_slots of the admitted tasks),
\* and the same stress, the sum of priority * difficulty over the admitted
\* tasks; so every feasible assignment is optimal whatever the weights
\* alpha >= 0 and beta.
EveryFeasibleStartIsOptimal ==
    FixedGridModelBuilt =>
      LET T == schedulable_tasks
          durations == Sum([i \in 1 .. Len(T) |-> T[i].duration_slots],
                           1 .. Len(T))
          stress == Sum([i \in 1 .. Len(T) |-> T[i].priority * T[i].difficulty],
                        1 .. Len(T))
          optimal == OptimalSolutions(variant, T, start_hour, end_hour,
                         commitments, daily_limit_slots, hard_task_threshold)
      IN \A x \in Feasible :
            LET free == FreeSlots(T, x, commitments, GridTotalSlots)
            IN /\ 15 * Cardinality(free)
                    = 15 * (GridTotalSlots - Cardinality(commitments) - durations)
               /\ stress_terms(variant, T, x, start_hour, end_hour) = stress
               /\ <<x, free>> \in optimal

\* A base model with two admitted tasks, blocked slots and feasible
\* assignments that start the first task on different days.
TwoFeasibleAssignments ==
    /\ FixedGridModelBuilt
    /\ variant = "base"
    /\ Len(schedulable_tasks) = 2
    /\ commitments # {}
    /\ \E x, y \in Feasible : DayOfSlot(x[1]) # DayOfSlot(y[1])

\* The feasible start-slot assignments of the current request under the
\* constraints of variant v.
FeasibleUnder(v) ==
    FeasibleSolutions(v, schedulable_tasks, start_hour, end_hour, commitments,
                      daily_limit_slots, hard_task_threshold)

\* C29: the base model (binary Y[s] equal to the occupation of slot s, daily
\* limit on the sum of Y) and the no-Y model (leisure and daily limit on the
\* occupation expression) admit the same feasible start-slot assignments
\* and give each of them the same maximal total leisure, for the same
\* tasks, commitments, daily_limit_slots and hard_task_threshold.
BaseAndNoYEquivalent ==
    FixedGridModelBuilt =>
       /\ FeasibleUnder("base") = FeasibleUnder("noY")
       /\ \A x \in FeasibleUnder("base") :
             LET free == FreeSlots(schedulable_tasks, x, commitments,
                                   GridTotalSlots)
             IN /\ \A s \in free :
                      Occupation(schedulable_tasks, x, s, GridTotalSlots) = 0
                /\ \A K \in daily_limit_slots, d \in Days :
                      DailyLoad("base", schedulable_tasks, x, d,
                                GridSlotsPerDay, GridTotalSlots)
                        = DailyLoad("noY", schedulable_tasks, x, d,
                                    GridSlotsPerDay, GridTotalSlots)
                /\ obj_leisure("base", free, start_hour, end_hour)
                      = obj_leisure("noY", free, start_hour, end_hour)

\* A model with a daily limit of 3 slots and a task of 4 slots: its only
\* feasible starts put it across two days.
DailyLimitSplitsTask ==
    /\ FixedGridModelBuilt
    /\ daily_limit_slots = {3}
    /\ FeasibleUnder("noY") # {}
    /\ \E i \in 1 .. Len(schedulable_tasks) :
          /\ schedulable_tasks[i].duration_slots = 4
          /\ \A x \in FeasibleUnder("base") :
                DayOfSlot(x[i]) # DayOfSlot(x[i] + 3)

\* The penalty model with exactly one admitted task and a feasible start.
OneTaskPenaltyModel ==
    /\ variant = "penalty"
    /\ pc \in {"optimizing", "returned"}
    /\ Len(schedulable_tasks) = 1
    /\ Feasible # {}

FeasibleStarts == {x[1] : x \in Feasible}

\* late(i, s) of the one admitted task, times PenaltyUnit.
Late(s) ==
    calculate_deadline_penalty_factor(s, schedulable_tasks[1],
                                      PenaltyUnit(schedulable_tasks, 1))

\* C30: in the deadline-penalty variant with one admitted task and a
\* feasible start, the optimal schedule starts the task at its smallest
\* feasible start slot; late(i, s) is in [0, 1] and non-decreasing in s; and
\* the penalty forbids no start: the feasible starts are those of the hard
\* constraints alone, up to the latest one.
PenaltyPrefersEarliestStart ==
    OneTaskPenaltyModel =>
       /\ solver.Status = "OPTIMAL" =>
             \A s \in FeasibleStarts : solver.X[1] <= s
       /\ \A s \in Slots(GridTotalSlots) :
             /\ 0 <= Late(s)
             /\ Late(s) <= PenaltyUnit(schedulable_tasks, 1)
             /\ s > 0 => Late(s - 1) <= Late(s)
       /\ FeasibleStarts
            = {s \in OpenStarts(variant, schedulable_tasks[1], start_hour,
                                end_hour, commitments) :
                 DailyLimit(variant, schedulable_tasks, <<s>>,
                            daily_limit_slots, GridSlotsPerDay, GridTotalSlots)}

\* An optimal penalty schedule of one task that had later feasible starts,
\* with a positive penalty factor, to choose from.
EarliestOfSeveralStarts ==
    /\ OneTaskPenaltyModel
    /\ solver.Status = "OPTIMAL"
    /\ \E s \in FeasibleStarts : s > solver.X[1] /\ Late(s) > Late(solver.X[1])

=============================================================================
